---- MODULE Spec2Model ----
(***************************************************************************)
(* Model of the orbital-bullseye prediction core: the double-buffered      *)
(* Publisher (core/publisher.cpp), the PredictionBuffer it holds           *)
(* (core/prediction_buffer.hpp), the time grid (core/time_grid.cpp), the   *)
(* vehicle registry (core/vehicle_index_map.cpp) and the two predictors    *)
(* that drive the Publisher (core/relative_predictor.cpp,                  *)
(* core/dummy_predictor.cpp).                                              *)
(*                                                                         *)
(* Doubles are modelled by small integers (exact for the values used) and  *)
(* one non-finite value, NaN.  A Vec3 is a tuple <<x, y, z>>; a 4-tuple    *)
(* <<x, y, z, d>> is the Vec3 with components x/d, y/d, z/d, and an        *)
(* 8-tuple is HCW's closed form applied to (r0, v0, n, t), which has no    *)
(* integer value when t > 0.  A pair <<old, <<v, w>>>> is a cell whose     *)
(* bytes were overwritten by parts of the Vec3s v and w.                   *)
(***************************************************************************)
EXTENDS Integers, Sequences, FiniteSets, TLC

\* ------------------------------------------------------------------ sizes
\* Capacities, scaled down so that the state space stays small.  The scale
\* keeps what the code depends on: their order, and that a Span of
\* MAX_STEPS positions (the MAX_STEPS of constants.hpp) ends behind the
\* buffer when it starts at a late row (rows 23..31 in the source, where
\* it is 600 positions over rows of 64).  Source values: MAX_VEHICLES = 32 (both
\* headers), bullseye::MAX_STEPS = 64 (prediction_buffer.hpp, the length of
\* a row of PredictionBuffer::positions and the clamp of DummyPredictor),
\* bullseye_pred::MAX_STEPS = 600 (constants.hpp, the clamp that
\* relative_predictor.cpp applies).
MAX_VEHICLES == 2
BUF_MAX_STEPS == 2
MAX_STEPS == 5

\* ----------------------------------------------------------------- bounds
MaxPublish == 3      \* publish calls per run (caps seqno_)
NumReaders == 1      \* concurrent reader threads
MaxTicks == 2        \* publishing predictor ticks per run
Readers == 1..NumReaders

\* Tick times (the unit tests use 10.0 and 20.0) and the values a caller
\* stores directly into a cell.
T0s == {10, 20}
Vals == {<<1, 2, 3>>, <<4, 5, 6>>}

\* ------------------------------------------------------- PredictionBuffer
\* positions[i][k] lives at flat offset i * BUF_MAX_STEPS + k of the
\* contiguous std::array<std::array<Vec3, MAX_STEPS>, MAX_VEHICLES>.
NCells == MAX_VEHICLES * BUF_MAX_STEPS
Cells == 0..(NCells - 1)
CellOf(i, k) == i * BUF_MAX_STEPS + k

Vec3Zero == <<0, 0, 0>>

\* The cells a caller stores into directly: positions[0][0] (as the unit
\* tests do) and the last cell of the buffer.
WriteCells == {CellOf(0, 0), CellOf(MAX_VEHICLES - 1, BUF_MAX_STEPS - 1)}

\* PredictionBuffer{}: seqno = 0, t0 = 0.0, positions{} all zero.
PredictionBuffer == [seqno |-> 0, t0 |-> 0, positions |-> [c \in Cells |-> Vec3Zero]]

\* ------------------------------------------------------------ doubles
\* The one non-finite double of the model.
NaN == 1000000
isfinite(x) == x # NaN
finite3(v) == isfinite(v[1]) /\ isfinite(v[2]) /\ isfinite(v[3])

\* IEEE arithmetic on the modelled values: exact on integers, NaN absorbs.
\* A product whose magnitude passes the largest finite value overflows to a
\* non-finite result (the infinity of the code; std::isfinite is false for
\* it as for NaN).
DblMax == 2000000000
Overflows(a, b) ==
  /\ a # 0
  /\ b # 0
  /\ (IF a < 0 THEN 0 - a ELSE a) > DblMax \div (IF b < 0 THEN 0 - b ELSE b)
FAdd(a, b) == IF isfinite(a) /\ isfinite(b) THEN a + b ELSE NaN
FSub(a, b) == IF isfinite(a) /\ isfinite(b) THEN a - b ELSE NaN
FMul(a, b) == IF isfinite(a) /\ isfinite(b) /\ ~Overflows(a, b) THEN a * b ELSE NaN

\* types.hpp: operator-, dot, cross, mul(Mat3, Vec3), transpose.
VSub(a, b) == <<FSub(a[1], b[1]), FSub(a[2], b[2]), FSub(a[3], b[3])>>
dot(a, b) == FAdd(FAdd(FMul(a[1], b[1]), FMul(a[2], b[2])), FMul(a[3], b[3]))
cross(a, b) ==
  <<FSub(FMul(a[2], b[3]), FMul(a[3], b[2])),
    FSub(FMul(a[3], b[1]), FMul(a[1], b[3])),
    FSub(FMul(a[1], b[2]), FMul(a[2], b[1]))>>
mul(A, v) == <<dot(A[1], v), dot(A[2], v), dot(A[3], v)>>
transpose(A) == [r \in 1..3 |-> [c \in 1..3 |-> A[c][r]]]
Mat3Identity == <<<<1, 0, 0>>, <<0, 1, 0>>, <<0, 0, 1>>>>

\* std::sqrt, rounded down to the grid of the modelled values (exact on the
\* perfect squares).
RECURSIVE SqrtFrom(_, _)
SqrtFrom(q, k) == IF k * k <= q THEN k ELSE SqrtFrom(q, (k + q \div k) \div 2)
Sqrt(q) == IF q < 0 THEN NaN ELSE SqrtFrom(q, IF q > 46340 THEN 46340 ELSE q)

\* ------------------------------------------------------------ time grid
\* make_time_grid(horizon_sec, cadence_sec): tau[k] = k * cadence for
\* k = 0..floor(horizon / cadence); empty for invalid inputs.
make_time_grid(horizon_sec, cadence_sec) ==
  IF horizon_sec < 0 \/ cadence_sec <= 0
  THEN <<>>
  ELSE LET k_max == horizon_sec \div cadence_sec
       IN [j \in 1..(k_max + 1) |-> (j - 1) * cadence_sec]

\* The same function on binary floating point of Precision significant bits,
\* where a division and a product round to the nearest value, ties to the
\* even significand, as IEEE 754 does with 53 bits.  A value is the rational
\* <<numerator, denominator>>, the denominator a power of two.
Precision == 3
QLt(x, y) == x[1] * y[2] < y[1] * x[2]
QLe(x, y) == x[1] * y[2] <= y[1] * x[2]
QEq(x, y) == x[1] * y[2] = y[1] * x[2]
\* a / b with 2^(Precision-1) <= a / b < 2^Precision, to the nearest integer.
NearestEven(a, b) ==
  IF 2 * (a % b) < b THEN a \div b
  ELSE IF 2 * (a % b) > b THEN (a \div b) + 1
  ELSE IF (a \div b) % 2 = 0 THEN a \div b
  ELSE (a \div b) + 1
Twice(x) == <<2 * x[1], x[2]>>
Half(x) == <<x[1], 2 * x[2]>>
\* a / b for a >= 0 and b > 0, rounded to Precision significant bits.
RECURSIVE RoundQ(_, _)
RoundQ(a, b) ==
  IF a = 0 THEN <<0, 1>>
  ELSE IF a >= (2 ^ Precision) * b THEN Twice(RoundQ(a, 2 * b))
  ELSE IF a < (2 ^ (Precision - 1)) * b THEN Half(RoundQ(2 * a, b))
  ELSE <<NearestEven(a, b), 1>>
\* A rational of either sign, rounded.
Fl(x) == IF x[1] < 0 THEN <<-RoundQ(-x[1], x[2])[1], RoundQ(-x[1], x[2])[2]>>
         ELSE RoundQ(x[1], x[2])
FlDiv(x, y) == RoundQ(x[1] * y[2], x[2] * y[1])
FlMul(x, y) == Fl(<<x[1] * y[1], x[2] * y[2]>>)
FlAdd(x, y) == Fl(<<x[1] * y[2] + y[1] * x[2], x[2] * y[2]>>)
FlSub(x, y) == Fl(<<x[1] * y[2] - y[1] * x[2], x[2] * y[2]>>)
\* static_cast<double>(k)
FlOfSize(k) == RoundQ(k, 1)
\* std::floor(x) for x >= 0
FlFloor(x) == x[1] \div x[2]
make_time_grid_fl(horizon_sec, cadence_sec) ==
  IF horizon_sec[1] < 0 \/ cadence_sec[1] <= 0
  THEN <<>>
  ELSE [j \in 1..(FlFloor(FlDiv(horizon_sec, cadence_sec)) + 1) |->
          FlMul(FlOfSize(j - 1), cadence_sec)]

\* The subdivision of one grid interval by ModelYA_STM::predict on that
\* floating point: dt = t_target - t_prev, n_steps = ceil(dt / max_h),
\* h = dt / n_steps, and n_steps times t += h from t_prev.  An interval with
\* dt == 0 takes no step.
FlCeil(x) == (x[1] + x[2] - 1) \div x[2]
RECURSIVE AdvanceClock(_, _, _)
AdvanceClock(t, h, n_steps) == IF n_steps = 0 THEN t ELSE AdvanceClock(FlAdd(t, h), h, n_steps - 1)
SubdivideInto(t_prev, dt, n_steps) ==
  [dt |-> dt, n_steps |-> n_steps, h |-> FlDiv(dt, FlOfSize(n_steps)),
   t |-> AdvanceClock(t_prev, FlDiv(dt, FlOfSize(n_steps)), n_steps)]
Subdivide(t_prev, dt, max_h) == SubdivideInto(t_prev, dt, FlCeil(FlDiv(dt, max_h)))
ya_interval(t_prev, t_target, max_h) ==
  IF QLt(<<0, 1>>, FlSub(t_target, t_prev))
  THEN Subdivide(t_prev, FlSub(t_target, t_prev), max_h)
  ELSE [dt |-> FlSub(t_target, t_prev), n_steps |-> 0, h |-> <<0, 1>>, t |-> t_prev]

\* Vec3 and Mat3 on that floating point: operator+, operator-, cross and
\* mul(Mat3, Vec3) of types.hpp, each product and each sum rounded, the sums
\* taken left to right as the expressions are written.
FlVAdd(a, b) == <<FlAdd(a[1], b[1]), FlAdd(a[2], b[2]), FlAdd(a[3], b[3])>>
FlVSub(a, b) == <<FlSub(a[1], b[1]), FlSub(a[2], b[2]), FlSub(a[3], b[3])>>
FlCross(a, b) ==
  <<FlSub(FlMul(a[2], b[3]), FlMul(a[3], b[2])),
    FlSub(FlMul(a[3], b[1]), FlMul(a[1], b[3])),
    FlSub(FlMul(a[1], b[2]), FlMul(a[2], b[1]))>>
FlRow(A, r, v) ==
  FlAdd(FlAdd(FlMul(A[r][1], v[1]), FlMul(A[r][2], v[2])), FlMul(A[r][3], v[3]))
FlMulMat(A, v) == <<FlRow(A, 1, v), FlRow(A, 2, v), FlRow(A, 3, v)>>

\* inertial_to_ric_relative and ric_to_inertial_relative on that floating
\* point; FlRelState is what the first returns given dr_i and dv_i rotated.
FlRelState(r_ric, Cdv, omega_ric) == [r |-> r_ric, v |-> FlVSub(Cdv, FlCross(omega_ric, r_ric))]
inertial_to_ric_relative_fl(veh_r_i, veh_v_i, chief_r_i, chief_v_i, C_i2r, omega_ric) ==
  FlRelState(FlMulMat(C_i2r, FlVSub(veh_r_i, chief_r_i)),
             FlMulMat(C_i2r, FlVSub(veh_v_i, chief_v_i)), omega_ric)
ric_to_inertial_relative_fl(rel_r_ric, rel_v_ric, chief_r_i, chief_v_i, C_r2i, omega_ric) ==
  [r |-> FlVAdd(chief_r_i, FlMulMat(C_r2i, rel_r_ric)),
   v |-> FlVAdd(chief_v_i, FlMulMat(C_r2i, FlVAdd(rel_v_ric, FlCross(omega_ric, rel_r_ric))))]

\* ------------------------------------------------------- VehicleIndexMap
VehicleIds == {100, 200}
Indices == 0..(MAX_VEHICLES - 1)
\* VehicleIndexMap() = default: ids_{} zero-filled, size_{0}.
VehicleIndexMapInit == [ids_ |-> [i \in Indices |-> 0], size_ |-> 0]

\* index_of(id): the first index below size_ holding id, or nullopt.
nullopt == MAX_VEHICLES
index_of(m, id) ==
  IF \E i \in Indices : i < m.size_ /\ m.ids_[i] = id
  THEN CHOOSE i \in Indices :
         /\ i < m.size_ /\ m.ids_[i] = id
         /\ \A j \in Indices : (j < m.size_ /\ m.ids_[j] = id) => i <= j
  ELSE nullopt

\* register_vehicle(id): what the call returns.
register_vehicle_ret(m, id) ==
  IF index_of(m, id) # nullopt THEN index_of(m, id)
  ELSE IF m.size_ >= MAX_VEHICLES THEN nullopt
  ELSE m.size_

\* clear(): size_ = 0, ids_ keeps what it held.
clear(m) == [m EXCEPT !.size_ = 0]

\* register_vehicle(id): the map after the call.
register_vehicle_appending(m, id) ==
  IF m.size_ >= MAX_VEHICLES THEN m
  ELSE [ids_ |-> [m.ids_ EXCEPT ![m.size_] = id], size_ |-> m.size_ + 1]
register_vehicle(m, id) ==
  IF index_of(m, id) # nullopt THEN m
  ELSE IF m.size_ >= MAX_VEHICLES THEN m
  ELSE [ids_ |-> [m.ids_ EXCEPT ![m.size_] = id], size_ |-> m.size_ + 1]

\* id_at(index): has_value() iff index < size_.
id_at_has_value(m, index) == index < m.size_
id_at(m, index) == m.ids_[index]

\* ------------------------------------------------- provider responses
\* const char* frame ids: the null pointer and two canonical ids.
nullptr == "nullptr"
kOk == "kOk"

\* What IChiefStateProvider::get(t0) can return (time_tag aside).  The
\* kinematics are chosen so that |r x v| / |r|^2 is an integer.
ChiefGood == [status |-> kOk, frame_id |-> "INERTIAL",
              r_i |-> <<1, 0, 0>>, v_i |-> <<0, 2, 0>>]
ChiefStates ==
  {ChiefGood,
   [ChiefGood EXCEPT !.status = "kTimeMissing"],
   [ChiefGood EXCEPT !.frame_id = nullptr],
   [ChiefGood EXCEPT !.r_i = <<NaN, 0, 0>>]}

\* What BullseyeFrame::update(t0) can return, in the fields step reads:
\* a constructed frame (omega = (0, 0, |h|/|r|^2), declared in RIC), an
\* adopted frame that declares no omega (from_adopted copies the omega
\* field of the provider all the same), and a non-ok snapshot.
kNone == 0
kAdoptedInvalid == 1
kDegenerateChief == 2
FrameConstructed ==
  [status |-> kOk, C_from_ric_to_inertial |-> Mat3Identity, has_omega |-> TRUE,
   omega_ric |-> <<0, 0, 2>>, omega_coords |-> "kOmegaRIC",
   used_adopted |-> FALSE, degraded |-> kNone]
FrameSnapshots ==
  {FrameConstructed,
   [FrameConstructed EXCEPT !.used_adopted = TRUE, !.has_omega = FALSE,
                            !.omega_coords = "kUnspecified"],
   [FrameConstructed EXCEPT !.status = "kNotAvailable", !.omega_ric = <<0, 0, 0>>,
                            !.degraded = kDegenerateChief]}

\* What IVehicleStateProvider::get(id, t0) can return: the chief's own
\* state, a deputy one unit further out, a failed query, the default
\* VehicleState{} (ok, null frame id), another frame, a non-finite state.
VehAtChief == [status |-> kOk, frame_id |-> "INERTIAL",
               r_i |-> <<1, 0, 0>>, v_i |-> <<0, 2, 0>>]
VehicleStates ==
  {VehAtChief,
   [VehAtChief EXCEPT !.r_i = <<2, 0, 0>>],
   [VehAtChief EXCEPT !.status = "kTimeMissing"],
   [VehAtChief EXCEPT !.frame_id = nullptr, !.r_i = <<0, 0, 0>>, !.v_i = <<0, 0, 0>>],
   [VehAtChief EXCEPT !.frame_id = "ECEF"],
   [VehAtChief EXCEPT !.r_i = <<NaN, 0, 0>>]}

\* (horizon_sec, cadence_sec) of a tick: two invalid pairs, a grid of 2
\* offsets (a row holds BUF_MAX_STEPS = 2) and a grid of 5 offsets (what
\* the clamp of RelativePredictor::step lets through).
GridInputs == {<<-1, 1>>, <<1, 0>>, <<1, 1>>, <<4, 1>>}

\* The caller's clock: the t0 of the tick that follows k published ticks.
TickTime(k) == 10 * (k + 1)

\* ------------------------------------------------------ mean motion
\* compute_mean_motion(chief, frame, out_n): [ok, n].
compute_mean_motion_any_coords(chief, frame) ==
  IF /\ frame.has_omega
     /\ isfinite(frame.omega_ric[3])
     /\ frame.omega_ric[3] > 0
  THEN [ok |-> TRUE, n |-> frame.omega_ric[3]]
  ELSE IF ~finite3(chief.r_i) \/ ~finite3(chief.v_i)
  THEN [ok |-> FALSE, n |-> 0]
  ELSE LET rr == dot(chief.r_i, chief.r_i)          \* r_norm * r_norm
           h == cross(chief.r_i, chief.v_i)
           hh == dot(h, h)                          \* h_norm * h_norm
       IN IF ~(rr > 0) THEN [ok |-> FALSE, n |-> 0]
          ELSE IF ~(hh > 0) THEN [ok |-> FALSE, n |-> 0]
          ELSE [ok |-> TRUE, n |-> Sqrt(hh) \div rr]
compute_mean_motion(chief, frame) ==
  IF /\ frame.has_omega
     /\ frame.omega_coords = "kOmegaRIC"
     /\ isfinite(frame.omega_ric[3])
     /\ frame.omega_ric[3] > 0
  THEN [ok |-> TRUE, n |-> frame.omega_ric[3]]
  ELSE IF ~finite3(chief.r_i) \/ ~finite3(chief.v_i)
  THEN [ok |-> FALSE, n |-> 0]
  ELSE LET rr == dot(chief.r_i, chief.r_i)          \* r_norm * r_norm
           h == cross(chief.r_i, chief.v_i)
           hh == dot(h, h)                          \* h_norm * h_norm
       IN IF ~(rr > 0) THEN [ok |-> FALSE, n |-> 0]
          ELSE IF ~(hh > 0) THEN [ok |-> FALSE, n |-> 0]
          ELSE [ok |-> TRUE, n |-> Sqrt(hh) \div rr]

\* ------------------------------------------------------ frame transform
\* inertial_to_ric_relative: r_ric = C dr, v_ric = C dv - omega x r_ric.
inertial_to_ric_relative(veh_r_i, veh_v_i, chief_r_i, chief_v_i, C_i2r, omega_ric) ==
  LET dr_i == VSub(veh_r_i, chief_r_i)
      dv_i == VSub(veh_v_i, chief_v_i)
      r_ric == mul(C_i2r, dr_i)
      v_ric == VSub(mul(C_i2r, dv_i), cross(omega_ric, r_ric))
  IN [r |-> r_ric, v |-> v_ric]

\* ------------------------------------------------------------ ModelHCW
\* The position HCW's closed form gives at offset t: the initial position
\* at t = 0 (sin = 0, cos = 1), zero for a zero initial state, and for the
\* rest the closed form applied to (r0, v0, n, t).
HcwPosition(x0, n, t) ==
  IF t = 0 THEN x0.r
  ELSE IF x0.r = Vec3Zero /\ x0.v = Vec3Zero THEN Vec3Zero
  ELSE <<x0.r[1], x0.r[2], x0.r[3], x0.v[1], x0.v[2], x0.v[3], n, t>>

\* The number of leading offsets of the grid that are finite and >= 0.
RECURSIVE ValidPrefix(_, _)
ValidPrefix(tau, k) ==
  IF k > Len(tau) THEN Len(tau)
  ELSE IF ~(isfinite(tau[k]) /\ tau[k] >= 0) THEN k - 1
  ELSE ValidPrefix(tau, k + 1)

\* predict_hcw(x0, params, grid, out_r_ric = {data, size}, out_v_ric = {}):
\* the result code, steps_written and the positions stored at
\* out_r_ric[0], out_r_ric[1], ... in this order.
predict_hcw(x0, n, tau, out_size) ==
  IF ~(n > 0) \/ ~isfinite(n)
  THEN [code |-> "kInvalidInput", steps_written |-> 0, out |-> <<>>]
  ELSE IF ~finite3(x0.r) \/ ~finite3(x0.v)
  THEN [code |-> "kInvalidInput", steps_written |-> 0, out |-> <<>>]
  ELSE IF Len(tau) = 0
  THEN [code |-> kOk, steps_written |-> 0, out |-> <<>>]
  ELSE IF out_size < Len(tau)
  THEN [code |-> "kInsufficientOutputCapacity", steps_written |-> 0, out |-> <<>>]
  ELSE LET good == ValidPrefix(tau, 1)
           out == [k \in 1..good |-> HcwPosition(x0, n, tau[k])]
       IN IF good < Len(tau)
          THEN [code |-> "kInvalidInput", steps_written |-> 0, out |-> out]
          ELSE [code |-> kOk, steps_written |-> Len(tau), out |-> out]

\* -------------------------------------------------------------- Publisher
\* Publisher() = default: buffers_[2]{}, front_index_{0}, seqno_{0}.
kNumBuffers == 2
\* Not a buffer index: the holder has no reference.
NoRef == kNumBuffers
PublisherInit ==
  [buffers |-> [b \in 0..(kNumBuffers - 1) |-> PredictionBuffer],
   front_index |-> 0,
   seqno_ |-> 0]

\* Mutant of BackOf: the writable buffer is the visible one.
BackOfSame(front) == front
\* const std::size_t back = 1u - front;
BackOf(front) == 1 - front

\* begin_write(): the index of the buffer the returned reference denotes.
begin_write(p) == BackOf(p.front_index)

\* read(): the index of the buffer the returned reference denotes.
read(p) == p.front_index

\* published_seqno(): the seqno stamped into the front buffer.
published_seqno(p) == p.buffers[read(p)].seqno

\* Mutant of FetchAdd: the counter is bumped but the old value is returned.
FetchAddOld(p) == p.seqno_
\* seqno_.fetch_add(1u) + 1u: the value publish stamps and returns.
FetchAdd(p) == p.seqno_ + 1

\* The four effects of publish(t0), in program order.
PubBumpSeqno(p) == [p EXCEPT !.seqno_ = @ + 1]
\* Mutant of PubStampSeqno: the stamp goes into the visible buffer.
PubStampSeqnoFront(p, back, new_seq) == [p EXCEPT !.buffers[p.front_index].seqno = new_seq]
PubStampSeqno(p, back, new_seq) == [p EXCEPT !.buffers[back].seqno = new_seq]
\* Mutant of PubStampT0: t0 is not stamped.
PubStampT0Skip(p, back, t0) == p
PubStampT0(p, back, t0) == [p EXCEPT !.buffers[back].t0 = t0]
\* Mutant of PubStoreFront: the front index is left as it was.
PubStoreFrontKeep(p, back) == p
PubStoreFront(p, back) == [p EXCEPT !.front_index = back]

\* publish(t0) as one call by the producer: the publisher after the call.
publish(p, t0) ==
  LET back == BackOf(p.front_index)
      new_seq == FetchAdd(p)
  IN PubStoreFront(PubStampT0(PubStampSeqno(PubBumpSeqno(p), back, new_seq), back, t0), back)

\* The value publish(t0) returns.
publish_ret(p) == FetchAdd(p)

\* A store through a PredictionBuffer& into positions, at flat offset c.
StoreCell(p, b, c, v) == [p EXCEPT !.buffers[b].positions[c] = v]

\* ------------------------------------------------- stores through a Span
\* The memory a Span over positions[i].data() reaches: the cells of the
\* buffer and the MAX_STEPS - BUF_MAX_STEPS slots that follow it.
Untouched == <<>>
NSlots == NCells + MAX_STEPS - BUF_MAX_STEPS
Extend(positions) == [c \in 0..(NSlots - 1) |-> IF c \in Cells THEN positions[c] ELSE Untouched]

\* A store past the Publisher object hit memory the process may not write.
Faulted(mem, fault) == fault /\ mem[NCells] # Untouched

\* out_r_ric[k - 1] = out[k] for k = from..Len(out), with out_r_ric.data at
\* flat offset base: no bounds are checked, the store lands where the
\* pointer arithmetic leads.  With fault, the first store that reaches
\* past the buffer is the last thing the process does.
RECURSIVE StoreSpan(_, _, _, _, _)
StoreSpan(mem, base, out, from, fault) ==
  IF from > Len(out) \/ Faulted(mem, fault) THEN mem
  ELSE StoreSpan([mem EXCEPT ![base + from - 1] = out[from]], base, out, from + 1, fault)

\* --------------------------------------------- RelativePredictor::step
\* One iteration of the vehicle loop for the deputy state dep: why the row
\* was skipped, or the model's result.  The mutant passes the transform the
\* frame's omega only when the frame declares one in RIC, and the rate
\* about the cross-track axis that goes with n otherwise.
VehicleIterationDeclaredOmega(chief, frame, n_radps, tau, steps, dep) ==
  IF dep.status # kOk \/ dep.frame_id = nullptr
  THEN [code |-> "skip_state", out |-> <<>>]
  ELSE IF dep.frame_id # chief.frame_id
  THEN [code |-> "skip_frame", out |-> <<>>]
  ELSE [code |-> predict_hcw(inertial_to_ric_relative(
                               dep.r_i, dep.v_i, chief.r_i, chief.v_i,
                               transpose(frame.C_from_ric_to_inertial),
                               IF frame.has_omega /\ frame.omega_coords = "kOmegaRIC"
                               THEN frame.omega_ric ELSE <<0, 0, n_radps>>),
                             n_radps, tau, steps).code,
        out |-> predict_hcw(inertial_to_ric_relative(
                              dep.r_i, dep.v_i, chief.r_i, chief.v_i,
                              transpose(frame.C_from_ric_to_inertial),
                              IF frame.has_omega /\ frame.omega_coords = "kOmegaRIC"
                              THEN frame.omega_ric ELSE <<0, 0, n_radps>>),
                            n_radps, tau, steps).out]
VehicleIteration(chief, frame, n_radps, tau, steps, dep) ==
  IF dep.status # kOk \/ dep.frame_id = nullptr
  THEN [code |-> "skip_state", out |-> <<>>]
  ELSE IF dep.frame_id # chief.frame_id
  THEN [code |-> "skip_frame", out |-> <<>>]
  ELSE LET C_i2r == transpose(frame.C_from_ric_to_inertial)
           rel == inertial_to_ric_relative(dep.r_i, dep.v_i, chief.r_i, chief.v_i,
                                            C_i2r, frame.omega_ric)
           result == predict_hcw(rel, n_radps, tau, steps)
       IN [code |-> result.code, out |-> result.out]

\* nveh = std::min(map_.size(), MAX_VEHICLES)
LoopBound(size) == IF size < MAX_VEHICLES THEN size ELSE MAX_VEHICLES

\* Mutant of StepsClamp: the span covers the whole grid.
StepsUnclamped(size) == size
\* steps = std::min(grid.tau.size(), MAX_STEPS), with the MAX_STEPS of
\* constants.hpp.
StepsClamp(size) == IF size < MAX_STEPS THEN size ELSE MAX_STEPS

\* The vehicle loop from index i on: the memory after it.
RECURSIVE VehicleLoop(_, _, _, _, _)
VehicleLoop(mem, rows, i, nveh, fault) ==
  IF i >= nveh \/ Faulted(mem, fault) THEN mem
  ELSE VehicleLoop(StoreSpan(mem, CellOf(i, 0), rows[i].out, 1, fault), rows, i + 1, nveh,
                   fault)

\* ---------------------------------------- stores past the back buffer
\* Layout of Publisher: buffers_[0], buffers_[1], front_index_, seqno_.
\* The slots past buffers_[0].positions lie over buffers_[1]: the first
\* covers its seqno, its t0 and positions[0][0].x, the next covers the y
\* and z of that cell and the x of the cell after it, and so on.  The first
\* slot past buffers_[1].positions covers front_index_, seqno_ and 8 bytes
\* behind the Publisher; the slots after it lie behind the Publisher.
\* What a store leaves in an integer is the bit pattern of the double:
\* known when the Vec3 is a plain one, any pattern otherwise.
Huge == 1000000
BitsOf(x) == IF x = 0 THEN 0 ELSE Huge
GarbageBits == {0, Huge}
GarbageDoubles == {0, 7}
IsPlain(v) == Len(v) = 3
\* The choices an overrun by v leaves open: [xbits, ybits, y].  Past
\* buffers_[0] the second double lands on a double (t0), past buffers_[1]
\* on an integer (seqno_).
Garbage(v, back) ==
  IF v = Untouched
  THEN {[xbits |-> 0, ybits |-> 0, y |-> 0]}
  ELSE IF IsPlain(v)
  THEN {[xbits |-> BitsOf(v[1]), ybits |-> BitsOf(v[2]), y |-> v[2]]}
  ELSE IF back = 0
  THEN {[xbits |-> xb, ybits |-> 0, y |-> y] : xb \in GarbageBits, y \in GarbageDoubles}
  ELSE {[xbits |-> xb, ybits |-> yb, y |-> 0] : xb \in GarbageBits, yb \in GarbageBits}
\* The cell of buffers_[1] that lies under the z of slot v and the x, y of
\* slot w.
Garble(old, v, w) ==
  IF v = Untouched THEN old
  ELSE IF IsPlain(old) /\ IsPlain(v) /\ w = Untouched THEN <<v[3], old[2], old[3]>>
  ELSE IF IsPlain(v) /\ IsPlain(w) THEN <<v[3], w[1], w[2]>>
  ELSE <<old, <<v, w>>>>

\* The Publisher after the stores of the vehicle loop: mem is the memory
\* from positions[0][0] of the back buffer on.
Overrun(p, back, mem, g) ==
  LET filled == [p EXCEPT !.buffers[back].positions = [c \in Cells |-> mem[c]]]
      past(j) == IF NCells + j < NSlots THEN mem[NCells + j] ELSE Untouched
  IN IF mem[NCells] = Untouched THEN filled
     ELSE IF back = 0
     THEN [filled EXCEPT !.buffers[1].seqno = g.xbits,
                         !.buffers[1].t0 = g.y,
                         !.buffers[1].positions =
                            [c \in Cells |-> Garble(@[c], past(c), past(c + 1))]]
     ELSE [filled EXCEPT !.front_index = g.xbits, !.seqno_ = g.ybits]

\* The record of a tick: which predictor ran, how the call ended, which
\* providers it queried and what they answered, and what it handed to the
\* Publisher.
NoRows == [i \in {} |-> <<>>]
NotQueried == [status |-> "not queried"]
NoTick == [who |-> "none", outcome |-> "none", queried |-> {}, hc |-> <<0, 0>>,
           chief |-> NotQueried, frame |-> NotQueried, vst |-> NoRows, size |-> 0,
           t0 |-> 0, back |-> NoRef, grid |-> <<>>, rows |-> NoRows, n |-> 0,
           pre_seqno |-> 0]
\* A step that returned before begin_write().
Aborted(p, who, outcome, hc, chief, frame, t0) ==
  [pub |-> p, crashed |-> FALSE,
   tick |-> [NoTick EXCEPT !.who = who, !.outcome = outcome,
                           !.queried = (IF chief = NotQueried THEN {} ELSE {"chief"})
                                         \cup (IF frame = NotQueried THEN {} ELSE {"frame"}),
                           !.hc = hc, !.chief = chief, !.frame = frame, !.t0 = t0,
                           !.pre_seqno = published_seqno(p)]]

\* Mutants of the fail-fast tests of step.
GridUnusableNever(tau) == FALSE
GridUnusable(tau) == Len(tau) = 0
ChiefUnusableStatusOnly(chief) == chief.status # kOk
ChiefUnusable(chief) == chief.status # kOk \/ chief.frame_id = nullptr

\* step(t0, horizon_sec, cadence_sec) from begin_write() on, given the
\* responses of the providers: for each outcome the build can produce, the
\* publisher after the call, whether the process survived it, and the
\* record of the tick.
RelativeFill(p, m, t0, hc, tau, chief, frame, n_radps, vst) ==
  LET back == begin_write(p)
      steps == StepsClamp(Len(tau))
      nveh == LoopBound(m.size_)
      rows == [i \in 0..(nveh - 1) |->
                 IF ~id_at_has_value(m, i)
                 THEN [code |-> "skip_index", out |-> <<>>]
                 ELSE VehicleIteration(chief, frame, n_radps, tau, steps, vst[i])]
      tick == [who |-> "relative", outcome |-> "published",
               queried |-> {"chief", "frame"} \cup (IF nveh > 0 THEN {"vehicle"} ELSE {}),
               hc |-> hc, chief |-> chief, frame |-> frame, vst |-> vst, size |-> m.size_,
               t0 |-> t0, back |-> back, grid |-> tau, rows |-> rows, n |-> n_radps,
               pre_seqno |-> published_seqno(p)]
      \* Only behind buffers_[1] do the stores leave the Publisher.
      faults == IF back = 1 THEN BOOLEAN ELSE {FALSE}
      ran == VehicleLoop(Extend(p.buffers[back].positions), rows, 0, nveh, FALSE)
      cut == VehicleLoop(Extend(p.buffers[back].positions), rows, 0, nveh, TRUE)
      outcome(fault, g) ==
        LET mem == IF fault THEN cut ELSE ran
            hit == Overrun(p, back, mem, g)
        IN IF Faulted(mem, fault)
           THEN \* the loop never finished
                [pub |-> hit, crashed |-> TRUE, tick |-> [tick EXCEPT !.outcome = "faulted"]]
           ELSE IF hit.front_index \in {0, 1}
           THEN [pub |-> publish(hit, t0), crashed |-> FALSE, tick |-> tick]
           ELSE \* 1u - front wraps: publish stores through buffers_[back]
                \* far outside the object.
                [pub |-> hit, crashed |-> TRUE, tick |-> [tick EXCEPT !.outcome = "crashed"]]
  IN {outcome(fault, g) : fault \in faults, g \in Garbage(ran[NCells], back)}

\* ------------------------------------------------ DummyPredictor::step
\* {i + 0.001 k, k + 0.01 i, tau}: in thousandths, a plain Vec3 when the
\* components are whole numbers.
DummyPosition(i, k, tau) ==
  IF isfinite(tau) /\ k = 0 /\ i = 0
  THEN <<0, 0, tau>>
  ELSE <<1000 * i + k, 1000 * k + 10 * i, FMul(1000, tau), 1000>>

\* steps = std::min(grid.tau.size(), MAX_STEPS), with the MAX_STEPS of
\* prediction_buffer.hpp.
DummyStepsClamp(size) == IF size < BUF_MAX_STEPS THEN size ELSE BUF_MAX_STEPS

\* step(t0, horizon_sec, cadence_sec) from begin_write() on.
DummyFill(p, m, t0, hc, tau) ==
  LET back == begin_write(p)
      steps == DummyStepsClamp(Len(tau))
      nveh == LoopBound(m.size_)
      rows == [i \in 0..(nveh - 1) |->
                 [code |-> kOk, out |-> [k \in 1..steps |-> DummyPosition(i, k - 1, tau[k])]]]
      filled == [p EXCEPT !.buffers[back].positions =
                   [c \in Cells |->
                      LET i == c \div BUF_MAX_STEPS
                          k == c % BUF_MAX_STEPS
                      IN IF i < nveh /\ k < steps THEN rows[i].out[k + 1] ELSE @[c]]]
  IN [pub |-> publish(filled, t0), crashed |-> FALSE,
      tick |-> [who |-> "dummy", outcome |-> "published", queried |-> {}, hc |-> hc,
                chief |-> NotQueried, frame |-> NotQueried, vst |-> NoRows,
                size |-> m.size_, t0 |-> t0, back |-> back, grid |-> tau, rows |-> rows,
                n |-> 0, pre_seqno |-> published_seqno(p)]]

\* ------------------------------------- validate_adopted_bullseye_ric_frame
\* IEEE comparisons and division on the modelled values: a comparison with
\* a non-finite operand is false, a quotient is exact on the inputs of the
\* model and non-finite when the divisor is zero.
FEq(a, b) == isfinite(a) /\ isfinite(b) /\ a = b
FLe(a, b) == isfinite(a) /\ isfinite(b) /\ a <= b
FGt(a, b) == isfinite(a) /\ isfinite(b) /\ a > b
FDiv(a, b) == IF isfinite(a) /\ isfinite(b) /\ b # 0 THEN a \div b ELSE NaN
fabs(x) == IF ~isfinite(x) THEN NaN ELSE IF x < 0 THEN -x ELSE x

\* types.hpp: norm, mul(Mat3, Mat3), det.
norm(v) == IF isfinite(dot(v, v)) THEN Sqrt(dot(v, v)) ELSE NaN
mulMat(A, B) ==
  [r \in 1..3 |-> [c \in 1..3 |->
     FAdd(FAdd(FAdd(0, FMul(A[r][1], B[1][c])), FMul(A[r][2], B[2][c])), FMul(A[r][3], B[3][c]))]]
det(A) ==
  FAdd(FSub(FMul(A[1][1], FSub(FMul(A[2][2], A[3][3]), FMul(A[2][3], A[3][2]))),
            FMul(A[1][2], FSub(FMul(A[2][1], A[3][3]), FMul(A[2][3], A[3][1])))),
       FMul(A[1][3], FSub(FMul(A[2][1], A[3][2]), FMul(A[2][2], A[3][1]))))

finite_vec(v) == isfinite(v[1]) /\ isfinite(v[2]) /\ isfinite(v[3])
finite_mat(C) == \A r \in 1..3 : \A c \in 1..3 : isfinite(C[r][c])

\* max |C C^T - I|: an element enters the maximum when ae > max_abs, which
\* a non-finite element never is.
max_abs_CCt_minus_I(C) ==
  LET CCt == mulMat(C, transpose(C))
      ae(r, c) == fabs(FSub(CCt[r][c], IF r = c THEN 1 ELSE 0))
      seen == {ae(r, c) : r \in 1..3, c \in 1..3}
      finite == {0} \cup {x \in seen : isfinite(x)}
  IN CHOOSE m \in finite : \A x \in finite : x <= m

center_bound(chief_r_i, abs_m, rel) == FAdd(abs_m, FMul(rel, norm(chief_r_i)))

\* The finite checks made up front; the mutant forgets the frame's time tag.
FiniteInputsNoFrameTime(t0, chief, frame) ==
  /\ isfinite(t0) /\ isfinite(chief.time_tag)
  /\ finite_vec(chief.r_i) /\ finite_vec(chief.v_i)
  /\ finite_vec(frame.origin_i) /\ finite_mat(frame.C_from_ric_to_inertial)
FiniteInputs(t0, chief, frame) ==
  /\ isfinite(t0) /\ isfinite(chief.time_tag) /\ isfinite(frame.time_tag)
  /\ finite_vec(chief.r_i) /\ finite_vec(chief.v_i)
  /\ finite_vec(frame.origin_i) /\ finite_mat(frame.C_from_ric_to_inertial)

\* frame.time_tag == t0; the mutant accepts a tag one unit off.
TimeTagMatchesWithin(frame, t0) == FLe(fabs(FSub(frame.time_tag, t0)), 1)
TimeTagMatches(frame, t0) == FEq(frame.time_tag, t0)

FrameValidationResult(code, reason) == [status |-> code, reason |-> reason]

validate_adopted_bullseye_ric_frame(t0, chief, frame, tol) ==
  IF chief.status # kOk
  THEN FrameValidationResult("kInvalidInput", "kChiefNotOk")
  ELSE IF frame.status # kOk
  THEN FrameValidationResult("kInvalidInput", "kFrameNotOk")
  ELSE IF ~FiniteInputs(t0, chief, frame)
  THEN FrameValidationResult("kInvalidInput", "kNonFinite")
  ELSE IF frame.has_omega /\ ~finite_vec(frame.omega_ric)
  THEN FrameValidationResult("kInvalidInput", "kNonFinite")
  ELSE IF ~TimeTagMatches(frame, t0)
  THEN FrameValidationResult("kTimeMissing", "kTimeMismatch")
  ELSE IF frame.frame_kind # "kBullseyeRIC" \/ frame.axis_order # "kRIC"
  THEN FrameValidationResult("kInvalidInput", "kBadDeclaration")
  ELSE IF ~FLe(norm(VSub(frame.origin_i, chief.r_i)),
               center_bound(chief.r_i, tol.center_abs_m, tol.center_rel))
  THEN FrameValidationResult("kInvalidInput", "kCenteringMismatch")
  ELSE IF ~FLe(max_abs_CCt_minus_I(frame.C_from_ric_to_inertial), tol.ortho_max_abs)
  THEN FrameValidationResult("kInvalidInput", "kNotOrthonormal")
  ELSE IF ~isfinite(det(frame.C_from_ric_to_inertial))
          \/ ~FLe(fabs(FSub(det(frame.C_from_ric_to_inertial), 1)), tol.det_one_abs)
  THEN FrameValidationResult("kInvalidInput", "kNotRightHanded")
  ELSE IF frame.has_omega /\ frame.omega_coords # "kOmegaRIC"
  THEN FrameValidationResult("kInvalidInput", "kOmegaBadDeclaration")
  ELSE FrameValidationResult(kOk, "kOk")

\* ---- inputs of the validator
\* Tick times, the non-finite one among them.
FrameT0s == {10, NaN}

\* Chief states with their time tag: the good one of the predictor model at
\* the tick time, a failed query, a non-finite position, a non-finite tag,
\* and for the frame construction a position below Rmin, a velocity along
\* the position, no velocity, and the default state with a null frame id.
FrameChiefGood == [time_tag |-> 10, r_i |-> <<1, 0, 0>>, v_i |-> <<0, 2, 0>>,
                   frame_id |-> "INERTIAL", status |-> kOk]
ValidatorChiefs ==
  {FrameChiefGood,
   [FrameChiefGood EXCEPT !.status = "kTimeMissing"],
   [FrameChiefGood EXCEPT !.r_i = <<NaN, 0, 0>>],
   [FrameChiefGood EXCEPT !.time_tag = NaN]}

\* Tolerances: exact, and loose enough for an offset of one unit and a
\* shear to pass.
FrameValidationTolerances ==
  {[center_abs_m |-> 0, center_rel |-> 0, ortho_max_abs |-> 0, det_one_abs |-> 0],
   [center_abs_m |-> 0, center_rel |-> 1, ortho_max_abs |-> 1, det_one_abs |-> 1]}

\* Direction cosine matrices: the identity, a quarter turn about C, a shear
\* (determinant 1, rows not orthonormal), a reflection (orthonormal,
\* determinant -1), a stretch, and one with a non-finite element.
QuarterTurn == <<<<0, -1, 0>>, <<1, 0, 0>>, <<0, 0, 1>>>>
Shear == <<<<1, 1, 0>>, <<0, 1, 0>>, <<0, 0, 1>>>>
Reflection == <<<<1, 0, 0>>, <<0, 1, 0>>, <<0, 0, -1>>>>
Stretch == <<<<3, 0, 0>>, <<0, 1, 0>>, <<0, 0, 1>>>>
Dcms == {Mat3Identity, QuarterTurn, Shear, Reflection, Stretch,
         <<<<NaN, 0, 0>>, <<0, 1, 0>>, <<0, 0, 1>>>>}

\* What the omega fields of an adopted frame can say.
OmegaDeclarations ==
  {[has_omega |-> FALSE, omega_ric |-> <<0, 0, 0>>, omega_coords |-> "kUnspecified"],
   [has_omega |-> FALSE, omega_ric |-> <<NaN, 0, 0>>, omega_coords |-> "kOmegaInertial"],
   [has_omega |-> TRUE, omega_ric |-> <<0, 0, 2>>, omega_coords |-> "kOmegaRIC"],
   [has_omega |-> TRUE, omega_ric |-> <<0, 0, 2>>, omega_coords |-> "kOmegaInertial"],
   [has_omega |-> TRUE, omega_ric |-> <<0, 0, NaN>>, omega_coords |-> "kOmegaRIC"]}

\* What IBullseyeFrameProvider::get(t0) can return.
AdoptedRicFrames ==
  {[time_tag |-> tt, origin_i |-> o, C_from_ric_to_inertial |-> C,
    has_omega |-> w.has_omega, omega_ric |-> w.omega_ric, omega_coords |-> w.omega_coords,
    frame_kind |-> d[1], axis_order |-> d[2], frame_source_id |-> "ADOPTED", status |-> st] :
     tt \in {10, 11, NaN}, o \in {<<1, 0, 0>>, <<2, 0, 0>>, <<3, 0, 0>>}, C \in Dcms,
     w \in OmegaDeclarations,
     d \in {<<"kBullseyeRIC", "kRIC">>, <<"kUnspecified", "kRIC">>,
            <<"kBullseyeRIC", "kUnspecified">>},
     st \in {kOk, "kNotAvailable"}}

\* ------------------------------------------- construct_ric_from_chief
\* contracts::Tol: Rmin is one metre; Vmin and HhatMin lie far below the
\* smallest positive value of the model, so a value reaches them exactly
\* when it is positive.
kRmin_m == 1
AtLeastVmin(v_norm) == FGt(v_norm, 0)
AtLeastHhatMinAlways(h_hat) == TRUE
AtLeastHhatMin(h_hat) == FGt(h_hat, 0)

ConstructedRicFrame ==
  [time_tag |-> 0, origin_i |-> Vec3Zero, C_from_ric_to_inertial |-> Mat3Identity,
   omega_ric |-> Vec3Zero, has_omega |-> TRUE, omega_coords |-> "kOmegaRIC",
   frame_kind |-> "kBullseyeRIC", axis_order |-> "kRIC", status |-> kOk]

\* (1.0 / n) * v, or the zero vector and ok = false.
unit_or_fail_unscaled(v, n) ==
  IF ~FGt(n, 0) \/ ~isfinite(n)
  THEN [ok |-> FALSE, v |-> Vec3Zero]
  ELSE [ok |-> TRUE, v |-> v]
unit_or_fail(v, n) ==
  IF ~FGt(n, 0) \/ ~isfinite(n)
  THEN [ok |-> FALSE, v |-> Vec3Zero]
  ELSE [ok |-> TRUE, v |-> <<FDiv(v[1], n), FDiv(v[2], n), FDiv(v[3], n)>>]

construct_ric_from_chief(chief) ==
  LET out == [ConstructedRicFrame EXCEPT !.time_tag = chief.time_tag, !.origin_i = chief.r_i]
      r_norm == norm(chief.r_i)
      v_norm == norm(chief.v_i)
      h == cross(chief.r_i, chief.v_i)
      h_norm == norm(h)
      h_hat == FDiv(h_norm, FMul(r_norm, v_norm))
      eR_i == unit_or_fail(chief.r_i, r_norm)
      t_i == cross(h, chief.r_i)
      eI_first == unit_or_fail(t_i, norm(t_i))
      c_i == cross(eR_i.v, eI_first.v)
      eC_i == unit_or_fail(c_i, norm(c_i))
      i_i == cross(eC_i.v, eR_i.v)
      eI_i == unit_or_fail(i_i, norm(i_i))
      ok == /\ eR_i.ok /\ unit_or_fail(h, h_norm).ok /\ eI_first.ok /\ eC_i.ok /\ eI_i.ok
      C == [r \in 1..3 |-> <<eR_i.v[r], eI_i.v[r], eC_i.v[r]>>]
      omega_mag == FDiv(h_norm, FMul(r_norm, r_norm))
  IN IF chief.status # kOk
     THEN [out EXCEPT !.status = "kNotAvailable"]
     ELSE IF ~finite_vec(chief.r_i) \/ ~finite_vec(chief.v_i)
     THEN [out EXCEPT !.status = "kInvalidInput"]
     ELSE IF ~FLe(kRmin_m, r_norm) \/ ~AtLeastVmin(v_norm)
     THEN [out EXCEPT !.status = "kNotAvailable"]
     ELSE IF ~AtLeastHhatMin(h_hat) \/ ~isfinite(h_hat)
     THEN [out EXCEPT !.status = "kNotAvailable"]
     ELSE IF ~ok \/ ~finite_vec(eR_i.v) \/ ~finite_vec(eI_i.v) \/ ~finite_vec(eC_i.v)
     THEN [out EXCEPT !.status = "kInternalError"]
     ELSE IF ~isfinite(omega_mag)
     THEN [out EXCEPT !.status = "kInternalError", !.C_from_ric_to_inertial = C]
     ELSE [out EXCEPT !.C_from_ric_to_inertial = C, !.omega_ric = <<0, 0, omega_mag>>]

\* ------------------------------------------------ BullseyeFrame::update
\* contracts::Adopted: the policy in force and operator| on DegradeReason.
kOnAdoptedInvalid == "kFallbackConstructedDegraded"
BitOr(a, b) ==
  LET bit(x, k) == (x \div (2 ^ k)) % 2
      either(k) == IF bit(a, k) = 1 \/ bit(b, k) = 1 THEN 2 ^ k ELSE 0
  IN either(0) + either(1) + either(2)

BullseyeFrameSnapshot ==
  [time_tag |-> 0, origin_i |-> Vec3Zero, C_from_ric_to_inertial |-> Mat3Identity,
   has_omega |-> FALSE, omega_ric |-> Vec3Zero, omega_coords |-> "kUnspecified",
   frame_kind |-> "kBullseyeRIC", axis_order |-> "kRIC",
   inertial_frame_id |-> nullptr, adopted_frame_source_id |-> nullptr,
   used_adopted |-> FALSE, degraded |-> kNone, status |-> kOk]

from_constructed(chief, degraded) ==
  LET c == construct_ric_from_chief(chief)
  IN [BullseyeFrameSnapshot EXCEPT
        !.time_tag = c.time_tag, !.origin_i = c.origin_i,
        !.C_from_ric_to_inertial = c.C_from_ric_to_inertial,
        !.has_omega = c.has_omega, !.omega_ric = c.omega_ric,
        !.omega_coords = c.omega_coords, !.frame_kind = c.frame_kind,
        !.axis_order = c.axis_order, !.inertial_frame_id = chief.frame_id,
        !.used_adopted = FALSE, !.degraded = degraded, !.status = c.status]

\* The mutant takes the origin from the chief.
from_adopted_chief_origin(chief, f) ==
  [BullseyeFrameSnapshot EXCEPT
     !.time_tag = f.time_tag, !.origin_i = chief.r_i,
     !.C_from_ric_to_inertial = f.C_from_ric_to_inertial,
     !.has_omega = f.has_omega, !.omega_ric = f.omega_ric, !.omega_coords = f.omega_coords,
     !.frame_kind = f.frame_kind, !.axis_order = f.axis_order,
     !.inertial_frame_id = chief.frame_id, !.adopted_frame_source_id = f.frame_source_id,
     !.used_adopted = TRUE, !.degraded = kNone, !.status = kOk]
from_adopted(chief, f) ==
  [BullseyeFrameSnapshot EXCEPT
     !.time_tag = f.time_tag, !.origin_i = f.origin_i,
     !.C_from_ric_to_inertial = f.C_from_ric_to_inertial,
     !.has_omega = f.has_omega, !.omega_ric = f.omega_ric, !.omega_coords = f.omega_coords,
     !.frame_kind = f.frame_kind, !.axis_order = f.axis_order,
     !.inertial_frame_id = chief.frame_id, !.adopted_frame_source_id = f.frame_source_id,
     !.used_adopted = TRUE, !.degraded = kNone, !.status = kOk]

\* The test on the chief state update starts with; the mutant forgets the
\* frame id.
FrameChiefUnusableStatusOnly(chief) == chief.status # kOk
FrameChiefUnusable(chief) == chief.status # kOk \/ chief.frame_id = nullptr

\* if (!constructed.status.ok()) constructed.degraded |= kDegenerateChief;
\* the mutant assigns the flag.
MarkDegenerateAssign(constructed) ==
  IF constructed.status # kOk
  THEN [constructed EXCEPT !.degraded = kDegenerateChief]
  ELSE constructed
MarkDegenerate(constructed) ==
  IF constructed.status # kOk
  THEN [constructed EXCEPT !.degraded = BitOr(@, kDegenerateChief)]
  ELSE constructed

\* The fallback after an invalid adopted frame; the mutant leaves it
\* unmarked.
FallbackUnmarked(chief) == MarkDegenerate(from_constructed(chief, kNone))
FallbackConstructedDegraded(chief) == MarkDegenerate(from_constructed(chief, kAdoptedInvalid))

\* update(t0) of a BullseyeFrame built with (adopted_, mode_, tol_), given
\* what the providers answer: the snapshot returned and the calls made.
update(mode_, adopted_, tol_, t0, chief, frame) ==
  LET v == validate_adopted_bullseye_ric_frame(t0, chief, frame, tol_)
  IN IF FrameChiefUnusable(chief)
     THEN [out |-> [BullseyeFrameSnapshot EXCEPT
                      !.status = IF chief.status = kOk THEN "kInvalidInput"
                                 ELSE chief.status],
           calls |-> <<"chief_.get">>]
     ELSE IF mode_ = "kAdoptedPrefer" /\ adopted_ # nullptr
     THEN IF v.status = kOk
          THEN [out |-> from_adopted(chief, frame),
                calls |-> <<"chief_.get", "adopted_->get",
                            "validate_adopted_bullseye_ric_frame">>]
          ELSE IF kOnAdoptedInvalid = "kAbortTick"
          THEN [out |-> [BullseyeFrameSnapshot EXCEPT !.status = v.status],
                calls |-> <<"chief_.get", "adopted_->get",
                            "validate_adopted_bullseye_ric_frame">>]
          ELSE [out |-> FallbackConstructedDegraded(chief),
                calls |-> <<"chief_.get", "adopted_->get",
                            "validate_adopted_bullseye_ric_frame",
                            "construct_ric_from_chief">>]
     ELSE [out |-> MarkDegenerate(from_constructed(chief, kNone)),
           calls |-> <<"chief_.get", "construct_ric_from_chief">>]

\* ---- inputs of update
\* Chief states: those of the validator, another failure code, a null
\* frame id with an ok and with a failed status, a position below Rmin, a
\* velocity along the position, no velocity, a second orbit, and a time
\* tag that is not the tick's.
UpdateChiefs ==
  ValidatorChiefs \cup
  {[FrameChiefGood EXCEPT !.status = "kNotAvailable"],
   [FrameChiefGood EXCEPT !.frame_id = nullptr],
   [FrameChiefGood EXCEPT !.frame_id = nullptr, !.status = "kInternalError"],
   [FrameChiefGood EXCEPT !.r_i = <<0, 0, 0>>],
   [FrameChiefGood EXCEPT !.v_i = <<2, 0, 0>>],
   [FrameChiefGood EXCEPT !.v_i = <<0, 0, 0>>],
   [FrameChiefGood EXCEPT !.r_i = <<-1, 0, 0>>, !.v_i = <<0, -2, 0>>],
   [FrameChiefGood EXCEPT !.time_tag = 11]}
\* The default AdoptedRicFrame stands for the answer of a provider that is
\* not there.
AdoptedRicFrame ==
  [time_tag |-> 0, origin_i |-> Vec3Zero, C_from_ric_to_inertial |-> Mat3Identity,
   has_omega |-> FALSE, omega_ric |-> Vec3Zero, omega_coords |-> "kUnspecified",
   frame_kind |-> "kUnspecified", axis_order |-> "kUnspecified",
   frame_source_id |-> nullptr, status |-> kOk]
NoProvider == [adopted |-> nullptr, frame |-> AdoptedRicFrame]
AdoptedProviders ==
  {NoProvider} \cup {[adopted |-> "provider", frame |-> f] : f \in AdoptedRicFrames}
\* A frame every check of the validator accepts for FrameChiefGood at 10.
AdoptedGood ==
  [AdoptedRicFrame EXCEPT !.time_tag = 10, !.origin_i = <<1, 0, 0>>,
                          !.frame_kind = "kBullseyeRIC", !.axis_order = "kRIC",
                          !.frame_source_id = "ADOPTED"]
\* How a BullseyeFrame is built and what its adopted provider answers: in
\* constructed-only mode the provider is never asked, one answer stands
\* for all.
FrameSetups ==
  {[mode |-> "kAdoptedPrefer", adopted |-> p.adopted, frame |-> p.frame] :
     p \in AdoptedProviders}
    \cup {[mode |-> "kConstructedOnly", adopted |-> p.adopted, frame |-> p.frame] :
            p \in {NoProvider, [adopted |-> "provider", frame |-> AdoptedGood]}}

\* ------------------------- CartesianChiefProvider, CartesianBullseyeFrameProvider
\* Both providers keep a current sample and a vector of samples; a sample is
\* its time tag t and the rest of it (r_i, v_i or origin_i, the DCM and the
\* omega fields), which get copies as a whole.
MaxSamples == 3
SampleTags == {10, 20, NaN}
SampleData == {1, 2}
Samples == {[t |-> t, data |-> d] : t \in SampleTags, d \in SampleData}
NoData == 0

\* a.t < b.t, the comparator of std::sort and std::lower_bound.
FLt(a, b) == isfinite(a) /\ isfinite(b) /\ a < b

\* The constructor: current_.t is a quiet NaN, no samples, sorted_ = true.
\* added and was_set are history: the samples added since the last
\* clear_samples and the sample of the last set_current.
CartesianProvider(kind, id, mode) ==
  [kind |-> kind, id_ |-> id, mode_ |-> mode, current_ |-> [t |-> NaN, data |-> NoData],
   samples_ |-> <<>>, sorted_ |-> TRUE, added |-> {}, was_set |-> {}]
NoCartesian == [kind |-> "none"]

set_current(self, s) == [self EXCEPT !.current_ = s, !.was_set = {s}]
add_sample(self, s) ==
  [self EXCEPT !.samples_ = Append(@, s), !.sorted_ = FALSE, !.added = @ \cup {s}]
clear_samples(self) == [self EXCEPT !.samples_ = <<>>, !.sorted_ = TRUE, !.added = {}]

\* CartesianBullseyeFrameProvider: the rest of a sample add_sample builds is
\* its pose with has_omega = false and a zero omega_ric.
FrameSampleData(pose) == [pose |-> pose, has_omega |-> FALSE, omega_ric |-> 0]
\* set_last_sample_omega_ric(omega_ric): samples_.back() gets the omega.
set_last_sample_omega_ric(self, omega_ric) ==
  IF self.samples_ = <<>> THEN self
  ELSE [self EXCEPT !.samples_[Len(self.samples_)].data.has_omega = TRUE,
                    !.samples_[Len(self.samples_)].data.omega_ric = omega_ric]

\* The orders std::sort can leave the vector in.  It is not stable: samples
\* with equal tags come out in any order.  With a NaN tag the comparator is
\* no strict weak ordering and the call has undefined behaviour: any order.
Orderings(s) ==
  {[k \in 1..Len(s) |-> s[f[k]]] :
     f \in {g \in [1..Len(s) -> 1..Len(s)] : \A i, j \in 1..Len(s) : i # j => g[i] # g[j]}}
Ordered(s) == \A k \in 1..(Len(s) - 1) : ~FLt(s[k + 1].t, s[k].t)
HasNaNTag(s) == \E k \in 1..Len(s) : ~isfinite(s[k].t)
SortOutcomes(s) ==
  IF HasNaNTag(s) THEN Orderings(s) ELSE {p \in Orderings(s) : Ordered(p)}
ensure_sorted_(self) ==
  IF self.sorted_ THEN {self}
  ELSE {[self EXCEPT !.samples_ = p, !.sorted_ = TRUE] : p \in SortOutcomes(self.samples_)}

\* std::lower_bound(first, first + len, t0): the halving search, as an
\* index from 1; Len + 1 is end().
RECURSIVE lower_bound(_, _, _, _)
lower_bound(s, first, len, t0) ==
  IF len <= 0 THEN first
  ELSE LET half == len \div 2
           mid == first + half
       IN IF FLt(s[mid].t, t0)
          THEN lower_bound(s, mid + 1, len - half - 1, t0)
          ELSE lower_bound(s, first, half, t0)

ProviderOut(id, code, time_tag, data) ==
  [id |-> id, status |-> code, time_tag |-> time_tag, data |-> data]

\* The part of get both providers share, on the sorted vector.
ExactLookup(self, t0) ==
  IF self.mode_ = "kCurrent"
  THEN IF ~FEq(self.current_.t, t0)
       THEN ProviderOut(self.id_, "kTimeMissing", 0, NoData)
       ELSE ProviderOut(self.id_, kOk, self.current_.t, self.current_.data)
  ELSE LET it == lower_bound(self.samples_, 1, Len(self.samples_), t0)
       IN IF it = Len(self.samples_) + 1 \/ ~FEq(self.samples_[it].t, t0)
          THEN ProviderOut(self.id_, "kTimeMissing", 0, NoData)
          ELSE ProviderOut(self.id_, kOk, self.samples_[it].t, self.samples_[it].data)

\* CartesianChiefProvider::get(t0) and CartesianBullseyeFrameProvider::get(t0):
\* the provider after the call and what it returned.
CartesianGet(self, t0) ==
  IF self.id_ = nullptr
  THEN {[self |-> self, out |-> ProviderOut(self.id_, "kInvalidInput", 0, NoData)]}
  ELSE IF self.kind = "frame" /\ ~isfinite(t0)
  THEN {[self |-> self, out |-> ProviderOut(self.id_, "kInvalidInput", 0, NoData)]}
  ELSE IF self.mode_ = "kCurrent"
  THEN {[self |-> self, out |-> ExactLookup(self, t0)]}
  ELSE {[self |-> sorted, out |-> ExactLookup(sorted, t0)] : sorted \in ensure_sorted_(self)}

\* --------------------------------------- the universal-variable Kepler solve
\* The modelled values are integers and every division rounds down, as a
\* double rounds to its own grid.  cos, cosh, sin and sinh have no value on
\* that grid: the orbits drawn keep z = alpha * x^2 at 0 (parabolic orbits,
\* or dt = 0), where the Stumpff functions take their series branch.
\* A Stumpff value is the rational <<numerator, denominator>>.
VScale(k, v) == <<FMul(k, v[1]), FMul(k, v[2]), FMul(k, v[3])>>
VAdd(a, b) == <<FAdd(a[1], b[1]), FAdd(a[2], b[2]), FAdd(a[3], b[3])>>
TimesQ(a, q) == FDiv(FMul(a, q[1]), q[2])

\* fabs(z) < 1e-8 on the integers is z = 0, where the series is its first term.
stumpff_C(z) == CASE fabs(z) = 0 -> <<1, 2>>
stumpff_S(z) == CASE fabs(z) = 0 -> <<1, 6>>
math_stumpff_C(z) == CASE fabs(z) = 0 -> <<1, 2>>
math_stumpff_S(z) == CASE fabs(z) = 0 -> <<1, 6>>
StumpffC(lib, z) == IF lib = "math" THEN math_stumpff_C(z) ELSE stumpff_C(z)
StumpffS(lib, z) == IF lib = "math" THEN math_stumpff_S(z) ELSE stumpff_S(z)

\* The fixed iteration counts: TwoBodyChiefProvider::kKeplerIters and the
\* kKeplerIters local to propagate_two_body_universal.
kKeplerIters == 12
kKeplerItersYA == 8

\* Everything the solve computes before its loop, from a validated input:
\* r0n, sqrt_mu, alpha, r0.v0 / sqrt_mu and the seed of x.
KeplerSetup(mu, r0, v0, dt) ==
  LET r0n == norm(r0)
      sqrt_mu == Sqrt(mu)
      v0n2 == dot(v0, v0)
      alpha == FSub(FDiv(2, r0n), FDiv(v0n2, mu))
      abs_alpha == fabs(alpha)
  IN [mu |-> mu, r0 |-> r0, v0 |-> v0, dt |-> dt, r0n |-> r0n, sqrt_mu |-> sqrt_mu,
      alpha |-> alpha,
      x0 |-> IF FGt(abs_alpha, 0) THEN FMul(FMul(sqrt_mu, abs_alpha), dt)
             ELSE FDiv(FMul(sqrt_mu, dt), r0n),
      r0dotv0_over_sqrtmu |-> FDiv(dot(r0, v0), sqrt_mu)]

\* F(x) and F'(x) of one loop body.
KeplerF(k, x, lib) ==
  LET x2 == FMul(x, x)
      z == FMul(k.alpha, x2)
      x3 == FMul(x2, x)
      one_minus_alpha_r0 == FSub(1, FMul(k.alpha, k.r0n))
  IN FSub(FAdd(FAdd(TimesQ(FMul(k.r0dotv0_over_sqrtmu, x2), StumpffC(lib, z)),
                    TimesQ(FMul(one_minus_alpha_r0, x3), StumpffS(lib, z))),
               FMul(k.r0n, x)),
          FMul(k.sqrt_mu, k.dt))
KeplerDF(k, x, lib) ==
  LET x2 == FMul(x, x)
      z == FMul(k.alpha, x2)
      one_minus_alpha_r0 == FSub(1, FMul(k.alpha, k.r0n))
  IN FAdd(FAdd(FMul(FMul(k.r0dotv0_over_sqrtmu, x),
                    FSub(1, TimesQ(z, StumpffS(lib, z)))),
               TimesQ(FMul(one_minus_alpha_r0, x2), StumpffC(lib, z))),
          k.r0n)
NoUpdate(k, x, lib) ==
  ~(KeplerDF(k, x, lib) # 0) \/ ~isfinite(KeplerDF(k, x, lib)) \/ ~isfinite(KeplerF(k, x, lib))
\* One loop body: x after it.
KeplerIteration(k, x, lib) ==
  IF NoUpdate(k, x, lib) THEN x
  ELSE FSub(x, FDiv(KeplerF(k, x, lib), KeplerDF(k, x, lib)))

\* for (iter = 0; iter < N; ++iter): the value of x after each body run.
LoopExitsConverged(k, x, iter, N, lib) == ~(iter < N) \/ KeplerF(k, x, lib) = 0
LoopExits(k, x, iter, N, lib) == ~(iter < N)
RECURSIVE KeplerLoop(_, _, _, _, _)
KeplerLoop(k, x, iter, N, lib) ==
  IF LoopExits(k, x, iter, N, lib) THEN <<>>
  ELSE LET x1 == KeplerIteration(k, x, lib)
       IN <<x1>> \o KeplerLoop(k, x1, iter + 1, N, lib)
LastX(k, xs) == IF xs = <<>> THEN k.x0 ELSE xs[Len(xs)]

\* f, g, r, |r|, and fdot, gdot, v where |r| allows them.
KeplerPosition(k, x, lib) ==
  LET x2 == FMul(x, x)
      z == FMul(k.alpha, x2)
      f == FSub(1, TimesQ(FDiv(x2, k.r0n), StumpffC(lib, z)))
      g == FSub(k.dt, TimesQ(FDiv(FMul(x2, x), k.sqrt_mu), StumpffS(lib, z)))
  IN VAdd(VScale(f, k.r0), VScale(g, k.v0))
KeplerVelocity(k, x, lib) ==
  LET x2 == FMul(x, x)
      z == FMul(k.alpha, x2)
      rn == norm(KeplerPosition(k, x, lib))
      fdot == FMul(FMul(FDiv(k.sqrt_mu, FMul(k.r0n, rn)),
                        FSub(TimesQ(z, StumpffS(lib, z)), 1)), x)
      gdot == FSub(1, TimesQ(FDiv(x2, rn), StumpffC(lib, z)))
  IN VAdd(VScale(fdot, k.r0), VScale(gdot, k.v0))

\* TwoBodyChiefProvider: the constructor stores its arguments.
TwoBodyChiefProvider(id, mu, t_epoch, r0, v0) ==
  [inertial_frame_id_ |-> id, mu_ |-> mu, t_epoch_ |-> t_epoch, r0_ |-> r0, v0_ |-> v0]
ChiefOut(id, code, time_tag, r, v) ==
  [frame_id |-> id, status |-> code, time_tag |-> time_tag, r_i |-> r, v_i |-> v]
TwoBodyValid(self, t0) ==
  /\ self.inertial_frame_id_ # nullptr
  /\ FGt(self.mu_, 0)
  /\ isfinite(t0) /\ isfinite(self.t_epoch_) /\ finite_vec(self.r0_) /\ finite_vec(self.v0_)
  /\ FGt(norm(self.r0_), 0)
StampEpoch(self, t0) == self.t_epoch_
StampQuery(self, t0) == t0
\* TwoBodyChiefProvider::get(t0): what it returns and the x of every
\* iteration it ran.
TwoBodyGet(self, t0) ==
  IF ~TwoBodyValid(self, t0)
  THEN [xs |-> <<>>,
        out |-> ChiefOut(self.inertial_frame_id_, "kInvalidInput", 0, Vec3Zero, Vec3Zero)]
  ELSE LET k == KeplerSetup(self.mu_, self.r0_, self.v0_, FSub(t0, self.t_epoch_))
           xs == KeplerLoop(k, k.x0, 0, kKeplerIters, "provider")
           x == LastX(k, xs)
           r == KeplerPosition(k, x, "provider")
           rn == norm(r)
           v == KeplerVelocity(k, x, "provider")
       IN IF ~(FGt(rn, 0) /\ isfinite(rn))
          THEN [xs |-> xs, out |-> ChiefOut(self.inertial_frame_id_, "kInternalError",
                                            0, Vec3Zero, Vec3Zero)]
          ELSE IF ~finite_vec(r) \/ ~finite_vec(v) \/ ~isfinite(rn)
          THEN [xs |-> xs, out |-> ChiefOut(self.inertial_frame_id_, "kInternalError",
                                            0, Vec3Zero, Vec3Zero)]
          ELSE [xs |-> xs, out |-> ChiefOut(self.inertial_frame_id_, kOk, StampQuery(self, t0), r, v)]

\* propagate_two_body_universal of model_ya_stm.cpp: ok stands for the
\* bool it returns, r_i and v_i for the ChiefPv it fills.
propagate_two_body_universal(r0_i, v0_i, mu, dt) ==
  IF ~FGt(mu, 0) \/ ~isfinite(mu) \/ ~isfinite(dt) \/ ~finite_vec(r0_i) \/ ~finite_vec(v0_i)
  THEN [ok |-> FALSE, xs |-> <<>>, r_i |-> Vec3Zero, v_i |-> Vec3Zero]
  ELSE IF ~FGt(norm(r0_i), 0) \/ ~isfinite(norm(r0_i))
  THEN [ok |-> FALSE, xs |-> <<>>, r_i |-> Vec3Zero, v_i |-> Vec3Zero]
  ELSE LET k == KeplerSetup(mu, r0_i, v0_i, dt)
           xs == KeplerLoop(k, k.x0, 0, kKeplerItersYA, "math")
           x == LastX(k, xs)
           r == KeplerPosition(k, x, "math")
           rn == norm(r)
           v == KeplerVelocity(k, x, "math")
       IN IF ~FGt(rn, 0) \/ ~isfinite(rn)
          THEN [ok |-> FALSE, xs |-> xs, r_i |-> Vec3Zero, v_i |-> Vec3Zero]
          ELSE IF ~finite_vec(r) \/ ~finite_vec(v)
          THEN [ok |-> FALSE, xs |-> xs, r_i |-> Vec3Zero, v_i |-> Vec3Zero]
          ELSE [ok |-> TRUE, xs |-> xs, r_i |-> r, v_i |-> v]

\* ------------------------------------------- the models and their spans
\* Span<Vec3>: data is nullptr or the caller's buffer, size what the caller
\* says it holds.  A call returns its Result and, in out_r and out_v, the
\* elements it stored at index 0, 1, ... of each span.
OutSpan(data, size) == [data |-> data, size |-> size]
SpanTooSmallSizeOnly(span, steps) == span.size < steps
SpanTooSmall(span, steps) == span.data = nullptr \/ span.size < steps
OffsetInvalidNegativeOnly(t) == ~(t >= 0)
OffsetInvalid(t) == ~(t >= 0) \/ ~isfinite(t)
ModelResult(code, steps_written, out_r, out_v) ==
  [code |-> code, steps_written |-> steps_written, out_r |-> out_r, out_v |-> out_v]

\* The velocity HCW's closed form gives at offset t, as HcwPosition.
HcwVelocity(x0, n, t) ==
  IF t = 0 THEN x0.v
  ELSE IF x0.r = Vec3Zero /\ x0.v = Vec3Zero THEN Vec3Zero
  ELSE <<"velocity", x0.r, x0.v, n, t>>

\* The loop of predict_hcw from step k on (k counts from 1).
RECURSIVE HcwLoop(_, _, _, _, _, _, _)
HcwLoop(x0, n, tau, k, want_vel, out_r, out_v) ==
  IF k > Len(tau) THEN ModelResult(kOk, Len(tau), out_r, out_v)
  ELSE IF OffsetInvalid(tau[k]) THEN ModelResult("kInvalidInput", 0, out_r, out_v)
  ELSE HcwLoop(x0, n, tau, k + 1, want_vel, Append(out_r, HcwPosition(x0, n, tau[k])),
               IF want_vel THEN Append(out_v, HcwVelocity(x0, n, tau[k])) ELSE out_v)

\* ModelHCW::predict_hcw(x0_ric, params, grid, out_r_ric, out_v_ric).
ModelHCW_predict_hcw(x0, params, tau, out_r_ric, out_v_ric) ==
  IF ~(params.n_radps > 0) \/ ~isfinite(params.n_radps)
  THEN ModelResult("kInvalidInput", 0, <<>>, <<>>)
  ELSE IF ~finite3(x0.r) \/ ~finite3(x0.v)
  THEN ModelResult("kInvalidInput", 0, <<>>, <<>>)
  ELSE IF Len(tau) = 0
  THEN ModelResult(kOk, 0, <<>>, <<>>)
  ELSE IF SpanTooSmall(out_r_ric, Len(tau))
  THEN ModelResult("kInsufficientOutputCapacity", 0, <<>>, <<>>)
  ELSE HcwLoop(x0, params.n_radps, tau, 1,
               out_v_ric.data # nullptr /\ out_v_ric.size >= Len(tau), <<>>, <<>>)

\* deriv_th_ltv(t, p, s, dsdt): whether it returns true, first given the
\* chief state the propagation produced at t.
DerivDefined(chief) ==
  /\ chief.ok
  /\ FGt(norm(chief.r_i), 0) /\ isfinite(norm(chief.r_i))
  /\ FGt(norm(cross(chief.r_i, chief.v_i)), 0) /\ isfinite(norm(cross(chief.r_i, chief.v_i)))
deriv_th_ltv(t, p) ==
  DerivDefined(propagate_two_body_universal(p.chief_r0_i, p.chief_v0_i, p.mu, t))

\* rk4_step(t, h, p, s): whether it returns true, and s after it.  It
\* returns true when the derivative exists at each of its stage times t,
\* t + h/2 and t + h.  Every derivative of the zero state is zero; any other
\* state after the step is the term <<s, t, h>>.
rk4_step(t, h, p, st) ==
  [ok |-> \A stage \in {t, FAdd(t, FDiv(h, 2)), FAdd(t, h)} : deriv_th_ltv(stage, p),
   s |-> IF st = [r |-> Vec3Zero, v |-> Vec3Zero] THEN st
         ELSE [r |-> <<"position", st, t, h>>, v |-> <<"velocity", st, t, h>>]]

\* for (i = 0; i < n_steps; ++i): false as soon as a step fails.
\* SubstepsAfter is the rest of the loop once step i returned.
RECURSIVE Substeps(_, _, _, _, _, _)
RECURSIVE SubstepsAfter(_, _, _, _, _, _)
Substeps(t, h, p, st, i, n_steps) ==
  IF ~(i < n_steps) THEN [ok |-> TRUE, s |-> st]
  ELSE SubstepsAfter(rk4_step(t, h, p, st), t, h, p, i, n_steps)
SubstepsAfter(step, t, h, p, i, n_steps) ==
  IF ~step.ok THEN [ok |-> FALSE, s |-> step.s]
  ELSE Substeps(FAdd(t, h), h, p, step.s, i + 1, n_steps)

\* std::ceil(dt / max_h) for dt > 0 and max_h > 0.
Ceil(dt, max_h) == (dt + max_h - 1) \div max_h

\* The integration from t_prev over dt in n_steps = ceil(dt / max_h) steps
\* of h = dt / n_steps; nothing to integrate when dt is 0.
YaAdvance(p, st, t_prev, dt) ==
  IF dt > 0
  THEN Substeps(t_prev, FDiv(dt, Ceil(dt, p.max_dt_sec)), p, st, 0, Ceil(dt, p.max_dt_sec))
  ELSE [ok |-> TRUE, s |-> st]

\* The loop of predict_ya_stm from step k on (k counts from 1); YaStore is
\* step k from the end of its integration on.
RECURSIVE YaLoop(_, _, _, _, _, _, _, _)
RECURSIVE YaStore(_, _, _, _, _, _, _)
YaLoop(p, tau, k, t_prev, st, want_vel, out_r, out_v) ==
  IF k > Len(tau) THEN ModelResult(kOk, Len(out_r), out_r, out_v)
  ELSE IF OffsetInvalid(tau[k]) THEN ModelResult("kInvalidInput", k - 1, out_r, out_v)
  ELSE IF tau[k] < t_prev THEN ModelResult("kInvalidInput", k - 1, out_r, out_v)
  ELSE YaStore(p, tau, k, want_vel, out_r, out_v, YaAdvance(p, st, t_prev, tau[k] - t_prev))
YaStore(p, tau, k, want_vel, out_r, out_v, run) ==
  IF ~run.ok THEN ModelResult("kInvalidInput", k - 1, out_r, out_v)
  ELSE YaLoop(p, tau, k + 1, tau[k], run.s, want_vel, Append(out_r, run.s.r),
              IF want_vel THEN Append(out_v, run.s.v) ELSE out_v)

\* ModelYA_STM::predict_ya_stm(x0_ric, params, grid, out_r_ric, out_v_ric).
ModelYA_STM_predict_ya_stm(x0, params, tau, out_r_ric, out_v_ric) ==
  IF ~(params.mu > 0) \/ ~isfinite(params.mu)
  THEN ModelResult("kInvalidInput", 0, <<>>, <<>>)
  ELSE IF ~(params.max_dt_sec > 0) \/ ~isfinite(params.max_dt_sec)
  THEN ModelResult("kInvalidInput", 0, <<>>, <<>>)
  ELSE IF ~finite3(params.chief_r0_i) \/ ~finite3(params.chief_v0_i)
  THEN ModelResult("kInvalidInput", 0, <<>>, <<>>)
  ELSE IF ~finite3(x0.r) \/ ~finite3(x0.v)
  THEN ModelResult("kInvalidInput", 0, <<>>, <<>>)
  ELSE IF Len(tau) = 0
  THEN ModelResult(kOk, 0, <<>>, <<>>)
  ELSE IF SpanTooSmall(out_r_ric, Len(tau))
  THEN ModelResult("kInsufficientOutputCapacity", 0, <<>>, <<>>)
  ELSE YaLoop(params, tau, 1, 0, x0,
              out_v_ric.data # nullptr /\ out_v_ric.size >= Len(tau), <<>>, <<>>)

\* --------------------------------------------------------------- state

VARIABLES
  pub,        \* the Publisher
  wref,       \* producer: buffer index of the reference begin_write() returned
  rref,       \* consumer: buffer index of the reference read() returned
  npub,       \* history: number of publish calls so far
  last_ret,   \* history: value the last publish call returned
  last_t0,    \* history: argument of the last publish call
  pending,    \* history: cells stored through wref since the last publish
  last_writes,\* history: pending as it was at the last publish call
  nwrites,    \* history: number of stores since the last publish
  ppc,        \* producer thread: where it is in its workflow
  plocal,     \* producer thread: locals of the publish call in progress
  rd,         \* reader threads: pc, reference and the copy made so far
  history,    \* history: contents of every snapshot published so far
  map,        \* the VehicleIndexMap the predictors iterate
  crashed,    \* the process stored through a wild pointer and is gone
  tick,       \* history: what the last step call did
  injected,   \* the model the caller handed to the predictor's constructor
  input,      \* the arguments and provider responses of a frame call to come
  call,       \* history: what the frame call returned and which calls it made
  bframe,     \* the members of a BullseyeFrame that lives across ticks
  prov        \* a Cartesian provider

seqvars == <<wref, rref, npub, last_ret, last_t0, pending, last_writes, nwrites>>
threadvars == <<ppc, plocal, rd, history>>
auxvars == <<injected, input, call, bframe, prov>>
predvars == <<map, crashed, tick, auxvars>>
vars == <<pub, seqvars, threadvars, predvars>>

NoCells == [c \in {} |-> Vec3Zero]

\* The fields of a PredictionBuffer in the order a reader copies them:
\* seqno, t0, then positions in memory order.
NFields == NCells + 2
Field(buf, n) == IF n = 1 THEN buf.seqno ELSE IF n = 2 THEN buf.t0 ELSE buf.positions[n - 3]
Contents(buf) == [n \in 1..NFields |-> Field(buf, n)]

NoLocals == [back |-> NoRef, new_seq |-> 0, t0 |-> 0]
ReaderIdle == [pc |-> "idle", ref |-> NoRef, got |-> <<>>]
NoInput == [op |-> "none"]
NoCall == [op |-> "none"]
NoBullseyeFrame == [mode_ |-> "none"]

InitCore ==
  /\ pub = PublisherInit
  /\ wref = NoRef
  /\ rref = NoRef
  /\ npub = 0
  /\ last_ret = 0
  /\ last_t0 = 0
  /\ pending = NoCells
  /\ last_writes = NoCells
  /\ nwrites = 0
  /\ ppc = "idle"
  /\ plocal = NoLocals
  /\ rd = [r \in Readers |-> ReaderIdle]
  /\ history = {Contents(PredictionBuffer)}
  /\ map = VehicleIndexMapInit
  /\ crashed = FALSE
  /\ tick = NoTick
  /\ call = NoCall

\* The predictor is built as relative_predictor.hpp declares it, with no
\* model argument: step runs ModelHCW.
Init == InitCore /\ injected = "ModelHCW" /\ input = NoInput /\ bframe = NoBullseyeFrame
  /\ prov = NoCartesian

\* ---------------------------------------------- single producer, in order
\* PredictionBuffer& back = publisher.begin_write();
BeginWrite ==
  /\ wref' = begin_write(pub)
  /\ UNCHANGED <<pub, rref, npub, last_ret, last_t0, pending, last_writes, nwrites, threadvars, predvars>>

\* back.positions[i][k] = v;  (through the reference of this interval)
WriteCell ==
  /\ wref # NoRef
  /\ \E c \in WriteCells, v \in Vals :
       /\ pub' = StoreCell(pub, wref, c, v)
       /\ pending' = [d \in (DOMAIN pending) \cup {c} |-> IF d = c THEN v ELSE pending[d]]
  /\ nwrites' = 1
  /\ UNCHANGED <<wref, rref, npub, last_ret, last_t0, last_writes, threadvars, predvars>>

\* publisher.publish(t0); the reference of begin_write() ends with it
\* (the producer workflow of publisher.hpp takes a new one per snapshot).
Publish ==
  /\ npub < MaxPublish
  /\ \E t0 \in T0s :
       /\ pub' = publish(pub, t0)
       /\ last_t0' = t0
  /\ last_ret' = publish_ret(pub)
  /\ npub' = npub + 1
  /\ wref' = NoRef
  /\ pending' = NoCells
  /\ last_writes' = pending
  /\ nwrites' = 0
  /\ UNCHANGED <<rref, threadvars, predvars>>

\* const PredictionBuffer& front = publisher.read();
Read ==
  /\ rref' = read(pub)
  /\ UNCHANGED <<pub, wref, npub, last_ret, last_t0, pending, last_writes, nwrites, threadvars, predvars>>

Next == BeginWrite \/ WriteCell \/ Publish \/ Read

Spec == Init /\ [][Next]_vars

\* ------------------------------- one producer thread, any reader threads
\* Every access to the shared buffers and to front_index_ is a step of its
\* own, so that the steps of the threads interleave as the hardware allows.
\* A reader that loads a cell the producer is storing into races with it;
\* at this granularity the load yields the old or the new value, according
\* to which step comes first.

\* Producer: PredictionBuffer& back = publisher.begin_write();
P_BeginWrite ==
  /\ ppc = "idle"
  /\ npub < MaxPublish
  /\ wref' = begin_write(pub)
  /\ ppc' = "fill"
  /\ UNCHANGED <<pub, rref, npub, last_ret, last_t0, pending, last_writes, nwrites,
                 plocal, rd, history, predvars>>

\* Producer: back.positions[i][k] = v;
P_WriteCell ==
  /\ ppc = "fill"
  /\ \E c \in WriteCells, v \in Vals : pub' = StoreCell(pub, wref, c, v)
  /\ UNCHANGED <<seqvars, threadvars, predvars>>

\* Producer, publish(t0): load front_index_, fetch_add seqno_.
P_PublishLoad ==
  /\ ppc = "fill"
  /\ \E t0 \in T0s :
       plocal' = [back |-> BackOf(pub.front_index), new_seq |-> FetchAdd(pub), t0 |-> t0]
  /\ pub' = PubBumpSeqno(pub)
  /\ ppc' = "stamp_seqno"
  /\ UNCHANGED <<seqvars, rd, history, predvars>>

\* Producer, publish(t0): buffers_[back].seqno = new_seq;
P_PublishStampSeqno ==
  /\ ppc = "stamp_seqno"
  /\ pub' = PubStampSeqno(pub, plocal.back, plocal.new_seq)
  /\ ppc' = "stamp_t0"
  /\ UNCHANGED <<seqvars, plocal, rd, history, predvars>>

\* Producer, publish(t0): buffers_[back].t0 = t0;
P_PublishStampT0 ==
  /\ ppc = "stamp_t0"
  /\ pub' = PubStampT0(pub, plocal.back, plocal.t0)
  /\ ppc' = "store_front"
  /\ UNCHANGED <<seqvars, plocal, rd, history, predvars>>

\* Producer, publish(t0): front_index_.store(back, release); return.
P_PublishStoreFront ==
  /\ ppc = "store_front"
  /\ pub' = PubStoreFront(pub, plocal.back)
  /\ history' = history \cup {Contents(pub.buffers[plocal.back])}
  /\ npub' = npub + 1
  /\ last_ret' = plocal.new_seq
  /\ last_t0' = plocal.t0
  /\ wref' = NoRef
  /\ plocal' = NoLocals
  /\ ppc' = "idle"
  /\ UNCHANGED <<rref, pending, last_writes, nwrites, rd, predvars>>

\* Reader r: const PredictionBuffer& front = publisher.read();
R_Read(r) ==
  /\ rd[r].pc \in {"idle", "done"}
  /\ rd' = [rd EXCEPT ![r] = [pc |-> "copy", ref |-> read(pub), got |-> <<>>]]
  /\ UNCHANGED <<pub, seqvars, ppc, plocal, history, predvars>>

\* Reader r: load the next field through the reference.
R_CopyField(r) ==
  /\ rd[r].pc = "copy"
  /\ LET n == Len(rd[r].got) + 1
         got == Append(rd[r].got, Field(pub.buffers[rd[r].ref], n))
     IN rd' = [rd EXCEPT ![r].got = got,
                         ![r].pc = IF n = NFields THEN "done" ELSE "copy"]
  /\ UNCHANGED <<pub, seqvars, ppc, plocal, history, predvars>>

NextThreads ==
  \/ P_BeginWrite
  \/ P_WriteCell
  \/ P_PublishLoad
  \/ P_PublishStampSeqno
  \/ P_PublishStampT0
  \/ P_PublishStoreFront
  \/ \E r \in Readers : R_Read(r)
  \/ \E r \in Readers : R_CopyField(r)

SpecThreads == Init /\ [][NextThreads]_vars

\* ------------------------------------------------- predictors, per tick
\* The state after a step call that had the result r.
StepResult(r) ==
  /\ pub' = r.pub
  /\ crashed' = r.crashed
  /\ tick' = r.tick
  /\ npub' = IF r.tick.outcome = "published" THEN npub + 1 ELSE npub
  /\ UNCHANGED <<map, wref, rref, last_ret, last_t0, pending, last_writes, nwrites, threadvars,
                 auxvars>>

\* map.register_vehicle(id)
RegisterVehicle ==
  /\ ~crashed
  /\ \E id \in VehicleIds : map' = register_vehicle(map, id)
  /\ UNCHANGED <<pub, seqvars, threadvars, crashed, tick, auxvars>>

\* RelativePredictor::step(t0, horizon_sec, cadence_sec) in a run of at most
\* limit published ticks.  The responses of the providers are drawn where
\* the code asks for them, from the sets given.
RelativeStepOn(limit, grids, chiefs, frames, vehicles) ==
  /\ ~crashed
  /\ npub < limit
  /\ \E hc \in grids :
       LET t0 == TickTime(npub)
           tau == make_time_grid(hc[1], hc[2])
       IN IF GridUnusable(tau)
          THEN StepResult(Aborted(pub, "relative", "empty_grid", hc, NotQueried, NotQueried, t0))
          ELSE \E chief \in chiefs :
            IF ChiefUnusable(chief)
            THEN StepResult(Aborted(pub, "relative", "chief_unavailable", hc, chief,
                                    NotQueried, t0))
            ELSE \E frame \in frames :
              IF frame.status # kOk
              THEN StepResult(Aborted(pub, "relative", "frame_unavailable", hc, chief,
                                      frame, t0))
              ELSE LET mm == compute_mean_motion(chief, frame)
                   IN IF ~mm.ok
                      THEN StepResult(Aborted(pub, "relative", "mean_motion_unresolved",
                                              hc, chief, frame, t0))
                      ELSE \E vst \in [0..(map.size_ - 1) -> vehicles] :
                             \E r \in RelativeFill(pub, map, t0, hc, tau, chief, frame,
                                                    mm.n, vst) :
                               StepResult(r)

RelativeStep == RelativeStepOn(MaxTicks, GridInputs, ChiefStates, FrameSnapshots, VehicleStates)

\* DummyPredictor::step(t0, horizon_sec, cadence_sec) in a run of at most
\* limit published ticks.
DummyStepOn(limit, grids) ==
  /\ ~crashed
  /\ npub < limit
  /\ \E hc \in grids :
       LET t0 == TickTime(npub)
           tau == make_time_grid(hc[1], hc[2])
       IN IF GridUnusable(tau)
          THEN StepResult(Aborted(pub, "dummy", "empty_grid", hc, NotQueried, NotQueried, t0))
          ELSE StepResult(DummyFill(pub, map, t0, hc, tau))

DummyStep == DummyStepOn(MaxTicks, GridInputs)

NextPred == RegisterVehicle \/ RelativeStep \/ DummyStep

SpecPred == Init /\ [][NextPred]_vars

\* ------------------------------------------- longer runs, fewer responses
\* Runs of up to MaxRuns published ticks over a grid that fits a row, with
\* an ok chief, a constructed frame (as built, or built as the fallback
\* for a rejected adopted frame) and deputies that are either one unit
\* further out or not available at t0.
MaxRuns == 3
VehOffset == [VehAtChief EXCEPT !.r_i = <<2, 0, 0>>]
VehLost == [VehAtChief EXCEPT !.status = "kTimeMissing"]
RunGrids == {<<1, 1>>}
RunChiefs == {ChiefGood}
RunFrames == {FrameConstructed, [FrameConstructed EXCEPT !.degraded = kAdoptedInvalid]}
RunVehicles == {VehOffset, VehLost}

\* The models a caller may hand over: ModelHCW and the FakeModel of
\* tests/unit/test_relative_predictor_injection.cpp, which ignores the
\* state and produces (k, 2k, 3k).
Models == {"ModelHCW", "FakeModel"}
FakePredict(x0, n, tau, out_size) ==
  IF out_size < Len(tau)
  THEN [code |-> "kInsufficientOutputCapacity", steps_written |-> 0, out |-> <<>>]
  ELSE [code |-> kOk, steps_written |-> Len(tau),
        out |-> [k \in 1..Len(tau) |-> <<k - 1, 2 * (k - 1), 3 * (k - 1)>>]]

InitRuns ==
  InitCore /\ injected \in Models /\ input = NoInput /\ bframe = NoBullseyeFrame
  /\ prov = NoCartesian

RunStep == RelativeStepOn(MaxRuns, RunGrids, RunChiefs, RunFrames, RunVehicles)

NextRuns == RegisterVehicle \/ RunStep

SpecRuns == InitRuns /\ [][NextRuns]_vars

\* ------------------------------------------- mean motion resolution
\* Ticks of a RelativePredictor whose chief is ok and whose frame snapshot
\* is ok, over every way the two sources of n can be usable or not.
MaxMeanTicks == 1
MeanChiefs ==
  {ChiefGood,
   [ChiefGood EXCEPT !.v_i = <<2, 0, 0>>],
   [ChiefGood EXCEPT !.r_i = <<0, 0, 0>>],
   [ChiefGood EXCEPT !.r_i = <<NaN, 0, 0>>],
   [ChiefGood EXCEPT !.v_i = <<0, NaN, 0>>]}
MeanFrames ==
  {[FrameConstructed EXCEPT !.has_omega = h, !.omega_coords = c, !.omega_ric = <<0, 0, w>>] :
     h \in BOOLEAN, c \in {"kOmegaRIC", "kOmegaInertial", "kUnspecified"},
     w \in {3, 0, -1, NaN}}
MeanStep == RelativeStepOn(MaxMeanTicks, RunGrids, MeanChiefs, MeanFrames, RunVehicles)
NextMean == RegisterVehicle \/ MeanStep
SpecMean == Init /\ [][NextMean]_vars

\* ------------------------------------------------ the frame validator
\* One call of validate_adopted_bullseye_ric_frame on arguments drawn from
\* the inputs above.
ValidatorInputs ==
  {[op |-> "validate", t0 |-> t0, chief |-> chief, frame |-> frame, tol |-> tol] :
     t0 \in FrameT0s, chief \in ValidatorChiefs, frame \in AdoptedRicFrames,
     tol \in FrameValidationTolerances}
InitValidator ==
  InitCore /\ injected = "ModelHCW" /\ input \in ValidatorInputs /\ bframe = NoBullseyeFrame
  /\ prov = NoCartesian
ValidateFrame ==
  /\ input.op = "validate"
  /\ call = NoCall
  /\ call' = [op |-> "validate",
              result |-> validate_adopted_bullseye_ric_frame(input.t0, input.chief,
                                                             input.frame, input.tol)]
  /\ UNCHANGED <<pub, seqvars, threadvars, map, crashed, tick, injected, input, bframe, prov>>
SpecValidator == InitValidator /\ [][ValidateFrame]_vars

\* ------------------------------------------------- the bullseye frame
\* One call of update(t0) on a BullseyeFrame built with a mode, an adopted
\* provider (or none) and tolerances, and the answers of the providers.
UpdateInputs ==
  {[op |-> "update", mode |-> b.mode, adopted |-> b.adopted, tol |-> tol, t0 |-> t0,
    chief |-> chief, frame |-> b.frame] :
     b \in FrameSetups, tol \in FrameValidationTolerances, t0 \in FrameT0s,
     chief \in UpdateChiefs}
InitFrame ==
  InitCore /\ injected = "ModelHCW" /\ input \in UpdateInputs /\ bframe = NoBullseyeFrame
  /\ prov = NoCartesian
UpdateFrame ==
  /\ input.op = "update"
  /\ call = NoCall
  /\ call' = [op |-> "update"]
               @@ update(input.mode, input.adopted, input.tol, input.t0, input.chief,
                         input.frame)
  /\ UNCHANGED <<pub, seqvars, threadvars, map, crashed, tick, injected, input, bframe, prov>>
SpecFrame == InitFrame /\ [][UpdateFrame]_vars

\* ------------------------------------------ the frame construction
\* One call of construct_ric_from_chief on a chief state put together from
\* every status, position and velocity below.
\* The radius 300 has a finite square while the squared length of h x r
\* overflows.
ConstructChiefs ==
  {[time_tag |-> tt, r_i |-> r, v_i |-> v, frame_id |-> id, status |-> st] :
     tt \in {10, NaN},
     r \in {<<1, 0, 0>>, <<-1, 0, 0>>, <<0, 2, 0>>, <<2, 0, 0>>, <<0, 0, 0>>, <<NaN, 0, 0>>,
            <<300, 0, 0>>},
     v \in {<<0, 2, 0>>, <<0, -2, 0>>, <<2, 0, 0>>, <<0, 0, 4>>, <<0, 0, 0>>, <<0, NaN, 0>>},
     id \in {"INERTIAL", nullptr},
     st \in {kOk, "kTimeMissing", "kInternalError"}}
ConstructInputs == {[op |-> "construct", chief |-> chief] : chief \in ConstructChiefs}
InitConstruct ==
  InitCore /\ injected = "ModelHCW" /\ input \in ConstructInputs /\ bframe = NoBullseyeFrame
  /\ prov = NoCartesian
ConstructFrame ==
  /\ input.op = "construct"
  /\ call = NoCall
  /\ call' = [op |-> "construct", out |-> construct_ric_from_chief(input.chief)]
  /\ UNCHANGED <<pub, seqvars, threadvars, map, crashed, tick, injected, input, bframe, prov>>
SpecConstruct == InitConstruct /\ [][ConstructFrame]_vars

\* ------------------------------------------- the Cartesian providers
\* A provider of either kind, in either mode, with or without an id; the
\* caller sets the current sample, adds and clears samples and queries.
InitCartesian ==
  /\ InitCore /\ injected = "ModelHCW" /\ input = NoInput /\ bframe = NoBullseyeFrame
  /\ prov \in {CartesianProvider(kind, id, mode) :
                 kind \in {"chief", "frame"}, id \in {"ID", nullptr},
                 mode \in {"kCurrent", "kTimeSeries"}}
CartesianIdle == UNCHANGED <<pub, seqvars, threadvars, map, crashed, tick, injected, input, bframe>>
SetCurrent ==
  /\ \E s \in Samples : prov' = set_current(prov, s)
  /\ call' = NoCall
  /\ CartesianIdle
AddSample ==
  /\ Len(prov.samples_) < MaxSamples
  /\ \E s \in Samples : prov' = add_sample(prov, s)
  /\ call' = NoCall
  /\ CartesianIdle
ClearSamples ==
  /\ prov' = clear_samples(prov)
  /\ call' = NoCall
  /\ CartesianIdle
Get ==
  /\ \E t0 \in SampleTags : \E g \in CartesianGet(prov, t0) :
       /\ prov' = g.self
       /\ call' = [op |-> "get", t0 |-> t0, out |-> g.out]
  /\ CartesianIdle
NextCartesian == SetCurrent \/ AddSample \/ ClearSamples \/ Get
SpecCartesian == InitCartesian /\ [][NextCartesian]_vars

\* ------------------------------------------------ the two-body solvers
\* A TwoBodyChiefProvider is constructed and queried once; the caller then
\* hands the same epoch state and dt to propagate_two_body_universal.
Orbits ==
  {[mu |-> 1, r0 |-> <<2, 0, 0>>, v0 |-> <<0, 1, 0>>],
   [mu |-> 1, r0 |-> <<2, 0, 0>>, v0 |-> <<1, 0, 0>>],
   [mu |-> 1, r0 |-> <<2, 0, 0>>, v0 |-> <<-1, 0, 0>>],
   [mu |-> 4, r0 |-> <<2, 0, 0>>, v0 |-> <<0, 2, 0>>],
   [mu |-> 4, r0 |-> <<2, 0, 0>>, v0 |-> <<2, 0, 0>>],
   [mu |-> 1, r0 |-> <<1, 0, 0>>, v0 |-> <<0, 1, 0>>],
   [mu |-> 0, r0 |-> <<2, 0, 0>>, v0 |-> <<0, 1, 0>>],
   [mu |-> -1, r0 |-> <<2, 0, 0>>, v0 |-> <<0, 1, 0>>],
   [mu |-> NaN, r0 |-> <<2, 0, 0>>, v0 |-> <<0, 1, 0>>],
   [mu |-> 1, r0 |-> <<0, 0, 0>>, v0 |-> <<0, 1, 0>>],
   [mu |-> 1, r0 |-> <<NaN, 0, 0>>, v0 |-> <<0, 1, 0>>],
   [mu |-> 1, r0 |-> <<2, 0, 0>>, v0 |-> <<0, NaN, 0>>]}
Epochs == {0, 10, NaN}
QueryTimes == {0, 6, 10, 40, 910, NaN}
ZStaysZero(self, t0) ==
  LET k == KeplerSetup(self.mu_, self.r0_, self.v0_, FSub(t0, self.t_epoch_))
  IN k.alpha = 0 \/ k.dt = 0
TwoBodyInputs ==
  {in \in {[op |-> "twobody", t0 |-> t0,
            self |-> TwoBodyChiefProvider(id, o.mu, t_epoch, o.r0, o.v0)] :
              id \in {"ECI", nullptr}, o \in Orbits, t_epoch \in Epochs, t0 \in QueryTimes} :
     TwoBodyValid([in.self EXCEPT !.inertial_frame_id_ = "ECI"], in.t0)
       => ZStaysZero(in.self, in.t0)}
InitTwoBody ==
  /\ InitCore /\ injected = "ModelHCW" /\ bframe = NoBullseyeFrame /\ prov = NoCartesian
  /\ input \in TwoBodyInputs
TwoBodyIdle ==
  UNCHANGED <<pub, seqvars, threadvars, map, crashed, tick, injected, input, bframe, prov>>
TwoBodyQuery ==
  /\ call = NoCall
  /\ LET g == TwoBodyGet(input.self, input.t0)
     IN call' = [op |-> "get", t0 |-> input.t0, out |-> g.out, xs |-> g.xs]
  /\ TwoBodyIdle
PropagateTwoBody ==
  /\ call.op = "get"
  /\ call' = [op |-> "propagate", t0 |-> call.t0, out |-> call.out, xs |-> call.xs,
              ya |-> propagate_two_body_universal(input.self.r0_, input.self.v0_,
                       input.self.mu_, FSub(input.t0, input.self.t_epoch_))]
  /\ TwoBodyIdle
NextTwoBody == TwoBodyQuery \/ PropagateTwoBody
SpecTwoBody == InitTwoBody /\ [][NextTwoBody]_vars

\* --------------------------------------------------- the models, called
\* One call of predict_hcw or predict_ya_stm on a state, parameters, a grid
\* and two spans drawn from the sets below.  The offsets are multiples of
\* the substep, and the chief orbits parabolic, so that every time the
\* integrator visits is one the Kepler solve above has a value for.
MaxGrid == 2
Offsets == {0, 2, -2, NaN}
ModelGrids == UNION {[1..len -> Offsets] : len \in 0..MaxGrid}
ModelStates ==
  {[r |-> Vec3Zero, v |-> Vec3Zero], [r |-> <<1, 0, 0>>, v |-> Vec3Zero],
   [r |-> <<NaN, 0, 0>>, v |-> Vec3Zero]}
HcwParamSets == {[n_radps |-> n] : n \in {2, 0, NaN}}
YaStmParamSets ==
  {[mu |-> mu, max_dt_sec |-> max_dt, chief_r0_i |-> c[1], chief_v0_i |-> c[2]] :
     mu \in {1, 0}, max_dt \in {2, 0},
     c \in {<<<<2, 0, 0>>, <<0, 1, 0>>>>, <<<<2, 0, 0>>, <<1, 0, 0>>>>,
            <<<<NaN, 0, 0>>, <<0, 1, 0>>>>}}
Spans == {OutSpan(data, size) : data \in {nullptr, "buffer"}, size \in 0..MaxGrid}
ModelInputs ==
  {[op |-> "predict", model |-> m[1], params |-> m[2], x0 |-> x0, tau |-> tau,
    out_r_ric |-> out_r, out_v_ric |-> out_v] :
     m \in ({"hcw"} \X HcwParamSets) \cup ({"ya_stm"} \X YaStmParamSets),
     x0 \in ModelStates, tau \in ModelGrids, out_r \in Spans, out_v \in Spans}
InitModels ==
  /\ InitCore /\ injected = "ModelHCW" /\ bframe = NoBullseyeFrame /\ prov = NoCartesian
  /\ input \in ModelInputs
ModelsIdle ==
  UNCHANGED <<pub, seqvars, threadvars, map, crashed, tick, injected, input, bframe, prov>>
PredictHcw ==
  /\ call = NoCall /\ input.model = "hcw"
  /\ call' = [op |-> "predict",
              res |-> ModelHCW_predict_hcw(input.x0, input.params, input.tau,
                                           input.out_r_ric, input.out_v_ric)]
  /\ ModelsIdle
PredictYaStm ==
  /\ call = NoCall /\ input.model = "ya_stm"
  /\ call' = [op |-> "predict",
              res |-> ModelYA_STM_predict_ya_stm(input.x0, input.params, input.tau,
                                                 input.out_r_ric, input.out_v_ric)]
  /\ ModelsIdle
NextModels == PredictHcw \/ PredictYaStm
SpecModels == InitModels /\ [][NextModels]_vars

\* ------------------------------------- one BullseyeFrame, tick after tick
MaxFrameTicks == 2
\* BullseyeFrame(chief_provider, adopted_provider, mode, tol): the members
\* other than the reference to the chief provider.
BullseyeFrameCtor(adopted_provider, mode, tol) ==
  [adopted_ |-> adopted_provider, mode_ |-> mode, tol_ |-> tol]
\* The members after update returned out: update assigns to none of them.
\* The mutant gives up on the adopted provider after a tick that did not
\* use its frame.
MembersLatched(self, out) ==
  [self EXCEPT !.adopted_ = IF out.used_adopted THEN @ ELSE nullptr]
MembersAfterUpdate(self, out) == self

\* How the frame object is built.
FrameConfigs ==
  {[op |-> "ticks", mode |-> c[1], adopted |-> c[2],
    tol |-> [center_abs_m |-> 0, center_rel |-> 0, ortho_max_abs |-> 0, det_one_abs |-> 0]] :
     c \in {<<"kAdoptedPrefer", "provider">>, <<"kAdoptedPrefer", nullptr>>,
            <<"kConstructedOnly", "provider">>}}
\* What the chief provider answers at t0: a sound state, one that moves
\* along its position vector, a failed query.
TickChiefs(t0) ==
  {[FrameChiefGood EXCEPT !.time_tag = t0],
   [FrameChiefGood EXCEPT !.time_tag = t0, !.v_i = <<2, 0, 0>>],
   [FrameChiefGood EXCEPT !.time_tag = t0, !.status = "kTimeMissing"]}
\* What the adopted provider answers at t0: a valid frame, a valid frame
\* turned a quarter with an omega, the sample of the first tick, nothing.
TickFrames(t0) ==
  {[AdoptedGood EXCEPT !.time_tag = t0],
   [AdoptedGood EXCEPT !.time_tag = t0, !.C_from_ric_to_inertial = QuarterTurn,
                       !.has_omega = TRUE, !.omega_ric = <<0, 0, 2>>,
                       !.omega_coords = "kOmegaRIC", !.frame_source_id = "OTHER"],
   AdoptedGood,
   [AdoptedRicFrame EXCEPT !.status = "kTimeMissing"]}

InitFrameTicks ==
  /\ InitCore /\ injected = "ModelHCW"
  /\ input \in FrameConfigs
  /\ bframe = BullseyeFrameCtor(input.adopted, input.mode, input.tol)
  /\ prov = NoCartesian
\* What one tick records: the query, what update returned and the outputs
\* of the ticks before it.
TickCall(n, t0, chief, frame, u) ==
  [op |-> "tick", n |-> n + 1, t0 |-> t0, chief |-> chief, frame |-> frame,
   out |-> u.out, calls |-> u.calls,
   earlier |-> IF call = NoCall THEN {} ELSE call.earlier \cup {call.out}]
\* frame.update(t0) at tick n, against what the two providers answer at t0.
TickOf(n, t0) ==
  \E chief \in TickChiefs(t0) :
    \E frame \in (IF input.adopted = nullptr THEN {AdoptedRicFrame} ELSE TickFrames(t0)) :
      /\ call' = TickCall(n, t0, chief, frame,
                          update(bframe.mode_, bframe.adopted_, bframe.tol_, t0, chief, frame))
      /\ bframe' = MembersAfterUpdate(bframe, call'.out)
\* frame.update(t0) at the next tick.
FrameTick ==
  /\ input.op = "ticks"
  /\ (IF call = NoCall THEN 0 ELSE call.n) < MaxFrameTicks
  /\ TickOf(IF call = NoCall THEN 0 ELSE call.n,
            TickTime(IF call = NoCall THEN 0 ELSE call.n))
  /\ UNCHANGED <<pub, seqvars, threadvars, map, crashed, tick, injected, input, prov>>
SpecFrameTicks == InitFrameTicks /\ [][FrameTick]_vars

\* ------------------------------------------------ the vehicle registry
\* One VehicleIndexMap and a caller that registers ids, 0 among them, and
\* clears the map; more ids than the map has room for.
MapIds == {0, 100, 200, 300}
InitMap ==
  /\ InitCore /\ injected = "ModelHCW" /\ input = NoInput /\ bframe = NoBullseyeFrame
  /\ prov = NoCartesian
MapIdle ==
  UNCHANGED <<pub, seqvars, threadvars, crashed, tick, injected, input, bframe, prov>>
\* map.register_vehicle(id)
MapRegister ==
  /\ \E id \in MapIds :
       /\ call' = [op |-> "register", id |-> id, before |-> map,
                   ret |-> register_vehicle_ret(map, id)]
       /\ map' = register_vehicle(map, id)
  /\ MapIdle
\* map.clear()
MapClear ==
  /\ call' = [op |-> "clear", before |-> map]
  /\ map' = clear(map)
  /\ MapIdle
NextMap == MapRegister \/ MapClear
SpecMap == InitMap /\ [][NextMap]_vars

\* ------------------------------------------------- the time grid alone
\* One call of make_time_grid on a horizon and a cadence of Precision bits:
\* negative, zero and positive ones, with at most MaxGridSteps steps in the
\* horizon.  That few steps keep k and the gap between k * cadence and
\* (k + 1) * cadence within the precision, as any grid that fits in memory
\* does with 53 bits.
MaxGridSteps == 2 ^ (Precision - 1)
Floats == {<<m, d>> : m \in -1..(2 ^ Precision - 1), d \in {1, 2, 4, 8}}
GridCalls ==
  {g \in {[op |-> "grid", horizon_sec |-> h, cadence_sec |-> c] : h \in Floats, c \in Floats} :
     \/ g.horizon_sec[1] < 0
     \/ g.cadence_sec[1] <= 0
     \/ QLt(g.horizon_sec, <<(MaxGridSteps + 1) * g.cadence_sec[1], g.cadence_sec[2]>>)}
InitGrid ==
  /\ InitCore /\ injected = "ModelHCW" /\ input \in GridCalls /\ bframe = NoBullseyeFrame
  /\ prov = NoCartesian
MakeTimeGrid ==
  /\ input.op = "grid"
  /\ call = NoCall
  /\ call' = [op |-> "grid",
              tau |-> make_time_grid_fl(input.horizon_sec, input.cadence_sec)]
  /\ UNCHANGED <<pub, seqvars, threadvars, map, crashed, tick, injected, input, bframe, prov>>
SpecGrid == InitGrid /\ [][MakeTimeGrid]_vars

\* ------------------------------------------- omega of the last sample
\* A CartesianBullseyeFrameProvider in TimeSeries mode; the caller adds
\* samples with finite tags, sets the omega of the last one and queries, in
\* any order.  call keeps, next to the last call, the tag of the last
\* add_sample call; a get also keeps which call it came after.
OmegaTags == {10, 20}
Omegas == {5, 7}
NoTag == NaN
LastAdded == IF call.op = "none" THEN NoTag ELSE call.last
InitOmega ==
  /\ InitCore /\ injected = "ModelHCW" /\ input = NoInput /\ bframe = NoBullseyeFrame
  /\ prov = CartesianProvider("frame", "ID", "kTimeSeries")
OmegaAddSample ==
  /\ Len(prov.samples_) < MaxSamples
  /\ \E t \in OmegaTags :
       /\ prov' = add_sample(prov, [t |-> t, data |-> FrameSampleData(1)])
       /\ call' = [op |-> "add", last |-> t]
  /\ CartesianIdle
OmegaSetLast ==
  /\ \E w \in Omegas :
       /\ prov' = set_last_sample_omega_ric(prov, w)
       /\ call' = [op |-> "omega", last |-> LastAdded, w |-> w, before |-> prov.samples_]
  /\ CartesianIdle
OmegaGet ==
  /\ \E t0 \in OmegaTags : \E g \in CartesianGet(prov, t0) :
       /\ prov' = g.self
       /\ call' = [op |-> "get", last |-> LastAdded, t0 |-> t0, out |-> g.out,
                   after |-> IF call.op = "omega" THEN [op |-> "omega", w |-> call.w]
                             ELSE [op |-> call.op]]
  /\ CartesianIdle
NextOmega == OmegaAddSample \/ OmegaSetLast \/ OmegaGet
SpecOmega == InitOmega /\ [][NextOmega]_vars

\* ------------------------------------------------- the round trip
\* A deputy state goes to RIC and back.  Components are whole numbers and
\* eighths of Precision bits; the DCMs are the identity and a quarter turn
\* about the third axis, each with its transpose.
QOf(n) == <<n, 1>>
QVec(v) == <<QOf(v[1]), QOf(v[2]), QOf(v[3])>>
QMat(A) == <<QVec(A[1]), QVec(A[2]), QVec(A[3])>>
TripComponents == {<<0, 1>>, <<1, 1>>, <<-2, 1>>, <<7, 1>>, <<1, 8>>}
TripVecs == {<<x, y, <<0, 1>>>> : x \in TripComponents, y \in {<<0, 1>>, <<1, 1>>}}
TripInputs ==
  {[op |-> "trip", veh_r_i |-> vr, veh_v_i |-> vv, chief_r_i |-> cr, chief_v_i |-> cv,
    C_i2r |-> QMat(C), omega_ric |-> QVec(w)] :
     vr \in TripVecs, vv \in {QVec(<<0, 1, 0>>), QVec(<<1, 2, 0>>)},
     cr \in {QVec(<<7, 0, 0>>), QVec(<<1, 1, 0>>)}, cv \in {QVec(<<0, 1, 0>>)},
     C \in {Mat3Identity, <<<<0, 1, 0>>, <<-1, 0, 0>>, <<0, 0, 1>>>>},
     w \in {<<0, 0, 0>>, <<0, 0, 1>>}}
InitTrip ==
  /\ InitCore /\ injected = "ModelHCW" /\ input \in TripInputs /\ bframe = NoBullseyeFrame
  /\ prov = NoCartesian
\* What the call to come back gets, given the relative state.
TripBack(rel) ==
  [op |-> "trip", rel |-> rel,
   back |-> ric_to_inertial_relative_fl(rel.r, rel.v, input.chief_r_i, input.chief_v_i,
                                        transpose(input.C_i2r), input.omega_ric)]
RoundTrip ==
  /\ input.op = "trip"
  /\ call = NoCall
  /\ call' = TripBack(inertial_to_ric_relative_fl(input.veh_r_i, input.veh_v_i,
                                                  input.chief_r_i, input.chief_v_i,
                                                  input.C_i2r, input.omega_ric))
  /\ UNCHANGED <<pub, seqvars, threadvars, map, crashed, tick, injected, input, bframe, prov>>
SpecTrip == InitTrip /\ [][RoundTrip]_vars

\* ------------------------------------ grids longer than the clamp
\* Runs of either predictor over a grid that fits a row and a grid of
\* MAX_STEPS + 1 offsets, with an ok chief, a constructed frame and deputies
\* that are further out, not available at t0, or ok with a non-finite
\* position.
MaxLongTicks == 2
LongGrids == {<<1, 1>>, <<MAX_STEPS, 1>>}
LongVehicles == {VehOffset, VehLost, [VehAtChief EXCEPT !.r_i = <<NaN, 0, 0>>]}
LongRelativeStep ==
  RelativeStepOn(MaxLongTicks, LongGrids, {ChiefGood}, {FrameConstructed}, LongVehicles)
LongDummyStep == DummyStepOn(MaxLongTicks, LongGrids)
NextLong == RegisterVehicle \/ LongRelativeStep \/ LongDummyStep
SpecLong == Init /\ [][NextLong]_vars

\* --------------------------------------- the omega of the transform
\* Ticks over a grid that fits a row, with an ok chief and each kind of
\* frame snapshot update(t0) returns ok: constructed, adopted with an omega
\* declared in RIC, and adopted without omega, where the omega_ric of the
\* AdoptedRicFrame is the Vec3{} it was built with.
MaxUseTicks == 1
FrameAdoptedOmega == [FrameConstructed EXCEPT !.used_adopted = TRUE, !.omega_ric = <<0, 0, 3>>]
FrameAdoptedNoOmega ==
  [FrameConstructed EXCEPT !.used_adopted = TRUE, !.has_omega = FALSE,
                           !.omega_ric = Vec3Zero, !.omega_coords = "kUnspecified"]
UseFrames == {FrameConstructed, FrameAdoptedOmega, FrameAdoptedNoOmega}
UseVehicles ==
  {VehOffset, [VehAtChief EXCEPT !.r_i = <<1, 1, 0>>, !.v_i = <<0, 3, 0>>],
   [VehAtChief EXCEPT !.r_i = <<1, 0, 1>>, !.v_i = <<1, 2, 0>>], VehLost}
UseStep == RelativeStepOn(MaxUseTicks, RunGrids, RunChiefs, UseFrames, UseVehicles)
NextUse == RegisterVehicle \/ UseStep
SpecUse == Init /\ [][NextUse]_vars

\* ------------------------------------ the substeps of a grid interval
\* One grid interval of a ModelYA_STM::predict call: t_prev is 0 or an
\* earlier offset, t_target an offset not below it (equal for a first
\* offset 0 or a repeated offset), max_dt_sec positive, and the interval
\* shorter than 2^Precision substeps, so that the count is a whole number
\* the format holds exactly.
PrevOffsets == {<<0, 1>>, <<1, 1>>, <<1, 2>>}
IntervalCalls ==
  {c \in {[op |-> "interval", t_prev |-> a, t_target |-> b, max_dt_sec |-> m] :
            a \in PrevOffsets, b \in Floats, m \in Floats} :
     /\ QLe(c.t_prev, c.t_target)
     /\ c.max_dt_sec[1] > 0
     /\ QLt(FlSub(c.t_target, c.t_prev), <<(2 ^ Precision) * c.max_dt_sec[1], c.max_dt_sec[2]>>)}
InitInterval ==
  /\ InitCore /\ injected = "ModelHCW" /\ input \in IntervalCalls /\ bframe = NoBullseyeFrame
  /\ prov = NoCartesian
IntegrateInterval ==
  /\ input.op = "interval"
  /\ call = NoCall
  /\ call' = [op |-> "interval"] @@ ya_interval(input.t_prev, input.t_target, input.max_dt_sec)
  /\ UNCHANGED <<pub, seqvars, threadvars, map, crashed, tick, injected, input, bframe, prov>>
SpecInterval == InitInterval /\ [][IntegrateInterval]_vars

\* ------------------------------ a reader polling published_seqno()
\* One producer publishing, readers calling published_seqno() again and
\* again. The call is two loads: front_index_ (acquire) inside read(), then
\* the plain field seqno of the buffer the reference denotes. Each value
\* obtained is recorded with the number of publish calls that had stored
\* front_index_ by then.
MaxReads == 3
R_SeqnoLoadFront(r) ==
  /\ rd[r].pc = "idle"
  /\ Len(rd[r].got) < MaxReads
  /\ rd' = [rd EXCEPT ![r].pc = "seqno", ![r].ref = read(pub)]
  /\ UNCHANGED <<pub, seqvars, ppc, plocal, history, predvars>>
R_SeqnoLoadField(r) ==
  /\ rd[r].pc = "seqno"
  /\ rd' = [rd EXCEPT ![r].pc = "idle",
                      ![r].got = Append(@, [seqno |-> pub.buffers[rd[r].ref].seqno,
                                            published |-> npub])]
  /\ UNCHANGED <<pub, seqvars, ppc, plocal, history, predvars>>
NextSeqno ==
  \/ P_BeginWrite
  \/ P_PublishLoad
  \/ P_PublishStampSeqno
  \/ P_PublishStampT0
  \/ P_PublishStoreFront
  \/ \E r \in Readers : R_SeqnoLoadFront(r)
  \/ \E r \in Readers : R_SeqnoLoadField(r)
SpecSeqno == Init /\ [][NextSeqno]_vars

\* ================================================================ claims
\* ---------------------------------------------------------------- C1
\* C1: with one producer (begin_write, stores, publish) and concurrent
\* readers (read, then loads of every field), each completed copy equals
\* the full contents of one published snapshot (the initial front buffer
\* included), never a mix of two ticks.
C1_CopyIsOneSnapshot ==
  \A r \in Readers : rd[r].pc = "done" => rd[r].got \in history

\* ---------------------------------------------------------------- C2
\* A call of step is a step of the model that leaves a new tick record.
StepCalled == tick' # tick

\* What the providers answered at the tick.
ChiefFailed(t) == "chief" \in t.queried /\ (t.chief.status # kOk \/ t.chief.frame_id = nullptr)
FrameFailed(t) == "frame" \in t.queried /\ t.frame.status # kOk
MeanMotionFailed(t) ==
  /\ "frame" \in t.queried
  /\ t.frame.status = kOk
  /\ ~compute_mean_motion(t.chief, t.frame).ok

\* C2: a call of RelativePredictor::step in which the chief state is non-ok
\* or has a null frame id, or the frame snapshot is non-ok, or the mean
\* motion cannot be resolved, publishes nothing and leaves the Publisher
\* (front index, counter, seqno, t0 and every cell of both buffers) as it
\* was before the call.
C2_FailFastLeavesPublisher ==
  [][(/\ StepCalled
      /\ tick'.who = "relative"
      /\ (ChiefFailed(tick') \/ FrameFailed(tick') \/ MeanMotionFailed(tick')))
     => (pub' = pub /\ npub' = npub /\ ~crashed')]_vars

\* A tick that failed on the mean motion after an earlier tick published
\* rows: the published snapshot is still there.
C2_Witness ==
  /\ tick.who = "relative"
  /\ MeanMotionFailed(tick)
  /\ tick.outcome = "mean_motion_unresolved"
  /\ published_seqno(pub) = 1
  /\ \E c \in Cells : pub.buffers[read(pub)].positions[c] # Vec3Zero

\* ---------------------------------------------------------------- C3
\* C3: when the grid is empty (horizon < 0 or cadence <= 0) a call of
\* RelativePredictor::step or DummyPredictor::step returns without
\* begin_write or publish: the Publisher is as before, published_seqno() is
\* what it was (0 on a fresh Publisher), and no provider was queried.
C3_EmptyGridNoPublish ==
  [][(/\ StepCalled
      /\ (tick'.hc[1] < 0 \/ tick'.hc[2] <= 0))
     => (/\ pub' = pub
         /\ npub' = npub
         /\ published_seqno(pub') = tick'.pre_seqno
         /\ (npub = 0 => published_seqno(pub') = 0)
         /\ tick'.queried = {}
         /\ tick'.back = NoRef)]_vars

\* RelativePredictor::step was called with cadence 0 after a published
\* tick.
C3_Witness ==
  /\ tick.who = "relative"
  /\ tick.hc[2] <= 0
  /\ tick.outcome = "empty_grid"
  /\ published_seqno(pub) = 1
  /\ npub = 1

\* ---------------------------------------------------------------- C4
\* C4: a call of RelativePredictor::step with a non-empty grid, an ok chief
\* state and frame snapshot and a resolved mean motion publishes exactly
\* once: published_seqno() is one more than before the call and read().t0
\* is the t0 of the tick, whatever the vehicle loop did.
C4_ValidTickPublishesOnce ==
  [][(/\ StepCalled
      /\ tick'.who = "relative"
      /\ Len(tick'.grid) > 0
      /\ ~ChiefFailed(tick') /\ ~FrameFailed(tick') /\ ~MeanMotionFailed(tick'))
     => (/\ ~crashed'
         /\ published_seqno(pub') = published_seqno(pub) + 1
         /\ pub'.buffers[read(pub')].t0 = tick'.t0)]_vars

\* ---------------------------------------------------------------- C5
\* The row the model computes for the vehicle at index i from what the
\* providers answered at the tick, whatever the other vehicles did.
OwnRow(t, i) == VehicleIteration(t.chief, t.frame, t.n, t.grid, StepsClamp(Len(t.grid)), t.vst[i])

\* C5: after a call of RelativePredictor::step that reached the vehicle
\* loop, the row of every registered vehicle whose own state was ok, in the
\* chief's frame and accepted by the model holds that vehicle's predicted
\* positions in the buffer begin_write() returned, whichever of the other
\* vehicles were skipped (non-ok state, null frame id, other frame) or
\* failed in the model.
C5_VehicleFailuresIsolated ==
  (tick.who = "relative" /\ tick.back # NoRef) =>
    \A i \in 0..(tick.size - 1) :
      OwnRow(tick, i).code = kOk =>
        \A k \in 0..(BUF_MAX_STEPS - 1) :
          k < Len(tick.grid) =>
            pub.buffers[tick.back].positions[CellOf(i, k)] = OwnRow(tick, i).out[k + 1]

\* ---------------------------------------------------------------- C11
\* The vehicle at index i was not skipped at the tick t: its state was ok
\* and in the chief's frame.
NonSkipped(t, i) ==
  /\ t.vst[i].status = kOk
  /\ t.vst[i].frame_id # nullptr
  /\ t.vst[i].frame_id = t.chief.frame_id

\* The initial relative state of the vehicle at index i at the tick t.
RelState(t, i) ==
  inertial_to_ric_relative(t.vst[i].r_i, t.vst[i].v_i, t.chief.r_i, t.chief.v_i,
                           transpose(t.frame.C_from_ric_to_inertial), t.frame.omega_ric)

\* What the model handed to the predictor produces for that vehicle.
ConfiguredOutput(t, i) ==
  IF injected = "FakeModel"
  THEN FakePredict(RelState(t, i), t.n, t.grid, StepsClamp(Len(t.grid)))
  ELSE predict_hcw(RelState(t, i), t.n, t.grid, StepsClamp(Len(t.grid)))

\* C11: after a tick of RelativePredictor that published, read().t0 is the
\* tick's t0 and, for every vehicle that was not skipped and every grid
\* step k, read().positions[i][k] is the k-th position produced by the
\* model the predictor was configured with.
C11_RunsConfiguredModel ==
  (tick.who = "relative" /\ tick.outcome = "published") =>
    /\ pub.buffers[read(pub)].t0 = tick.t0
    /\ \A i \in 0..(tick.size - 1) :
         (NonSkipped(tick, i) /\ ConfiguredOutput(tick, i).code = kOk) =>
           \A k \in 0..(Len(tick.grid) - 1) :
             /\ k < BUF_MAX_STEPS
             /\ pub.buffers[read(pub)].positions[CellOf(i, k)]
                  = ConfiguredOutput(tick, i).out[k + 1]

\* ---------------------------------------------------------------- C6
\* C12: every position RelativePredictor::step stores for vehicle i goes to
\* positions[i][k] of the back buffer with i < MAX_VEHICLES and k below the
\* row length: the step survives its stores, leaves the other buffer as it
\* was, and changes in the back buffer only the cells (i, k) of the
\* positions the model produced for vehicle i.
StoredCells(t) ==
  {CellOf(ik[1], ik[2] - 1) : ik \in {jk \in (DOMAIN t.rows) \X (1..BUF_MAX_STEPS) :
                                          jk[2] <= Len(t.rows[jk[1]].out)}}
C12_StoresStayInRow ==
  [][(StepCalled /\ tick'.who = "relative" /\ tick'.back # NoRef) =>
       /\ ~crashed'
       /\ \A i \in DOMAIN tick'.rows :
            i < MAX_VEHICLES /\ Len(tick'.rows[i].out) <= BUF_MAX_STEPS
       /\ pub'.buffers[1 - tick'.back] = pub.buffers[1 - tick'.back]
       /\ \A c \in Cells \ StoredCells(tick') :
            pub'.buffers[tick'.back].positions[c] = pub.buffers[tick'.back].positions[c]]_vars

\* C13: identical inputs at identical t0 give identical outputs: the snapshot
\* a tick publishes has the t0 and the positions that an instance which
\* processed no tick before publishes for the same provider responses,
\* registry, horizon and cadence at that t0.
FreshInstance(t) ==
  RelativeFill(PublisherInit, [map EXCEPT !.size_ = t.size], t.t0, t.hc, t.grid, t.chief,
               t.frame, t.n, t.vst)
C13_SameInputsSameOutputs ==
  (tick.who = "relative" /\ tick.outcome = "published") =>
    \A other \in FreshInstance(tick) :
      other.tick.outcome = "published" =>
        /\ pub.buffers[read(pub)].t0 = other.pub.buffers[read(other.pub)].t0
        /\ pub.buffers[read(pub)].positions = other.pub.buffers[read(other.pub)].positions

\* C14: whenever a tick publishes using a frame snapshot whose degraded
\* bitmask is non-empty, the snapshot read() returns carries those flags.
C14_PublishedCarriesDegraded ==
  (tick.who = "relative" /\ tick.outcome = "published" /\ tick.frame.degraded # kNone) =>
    /\ "degraded" \in DOMAIN pub.buffers[read(pub)]
    /\ pub.buffers[read(pub)].degraded = tick.frame.degraded

\* C15: validate_adopted_bullseye_ric_frame returns the reason of the first
\* failing check in the order chief not ok, frame not ok, non-finite input,
\* time mismatch, bad frame_kind or axis_order declaration, centering,
\* orthonormality, handedness, omega declaration; and kOk only when every
\* check passes.
ChiefNotOk(in) == in.chief.status # kOk
FrameNotOk(in) == in.frame.status # kOk
NonFiniteInput(in) ==
  \/ NaN \in {in.t0, in.chief.time_tag, in.frame.time_tag}
  \/ \E k \in 1..3 : NaN \in {in.chief.r_i[k], in.chief.v_i[k], in.frame.origin_i[k]}
  \/ \E r \in 1..3 : \E c \in 1..3 : in.frame.C_from_ric_to_inertial[r][c] = NaN
  \/ in.frame.has_omega /\ \E k \in 1..3 : in.frame.omega_ric[k] = NaN
TimeMismatch(in) == in.frame.time_tag # in.t0
BadDeclaration(in) == in.frame.frame_kind # "kBullseyeRIC" \/ in.frame.axis_order # "kRIC"
OffCentre(in) ==
  ~FLe(norm(VSub(in.frame.origin_i, in.chief.r_i)),
       FAdd(in.tol.center_abs_m, FMul(in.tol.center_rel, norm(in.chief.r_i))))
NotOrthonormal(in) ==
  LET C == in.frame.C_from_ric_to_inertial
  IN \E r \in 1..3 : \E c \in 1..3 :
       ~FLe(fabs(FSub(dot(C[r], C[c]), IF r = c THEN 1 ELSE 0)), in.tol.ortho_max_abs)
NotRightHanded(in) ==
  LET C == in.frame.C_from_ric_to_inertial
  IN ~FLe(fabs(FSub(dot(C[1], cross(C[2], C[3])), 1)), in.tol.det_one_abs)
OmegaBadDeclaration(in) == in.frame.has_omega /\ in.frame.omega_coords # "kOmegaRIC"
FirstFailing(in) ==
  IF ChiefNotOk(in) THEN "kChiefNotOk"
  ELSE IF FrameNotOk(in) THEN "kFrameNotOk"
  ELSE IF NonFiniteInput(in) THEN "kNonFinite"
  ELSE IF TimeMismatch(in) THEN "kTimeMismatch"
  ELSE IF BadDeclaration(in) THEN "kBadDeclaration"
  ELSE IF OffCentre(in) THEN "kCenteringMismatch"
  ELSE IF NotOrthonormal(in) THEN "kNotOrthonormal"
  ELSE IF NotRightHanded(in) THEN "kNotRightHanded"
  ELSE IF OmegaBadDeclaration(in) THEN "kOmegaBadDeclaration"
  ELSE "kOk"
C15_FirstFailingCheckWins ==
  call.op = "validate" => call.result.reason = FirstFailing(input)
\* A finite frame from an ok provider with the wrong time tag, a missing
\* declaration and a stretched matrix is rejected for its time tag.
C15_Witness ==
  /\ call.op = "validate"
  /\ ~ChiefNotOk(input) /\ ~FrameNotOk(input) /\ ~NonFiniteInput(input)
  /\ TimeMismatch(input) /\ BadDeclaration(input) /\ NotOrthonormal(input)
  /\ call.result.reason = "kTimeMismatch"

\* C16: the validator's status is kOk exactly when the reason is kOk,
\* kTimeMissing exactly when the reason is kTimeMismatch, which is the case
\* of a frame time tag different from t0 with no tolerance, and
\* kInvalidInput for every other reason.
AfterTimeCheck ==
  {"kOk", "kBadDeclaration", "kCenteringMismatch", "kNotOrthonormal", "kNotRightHanded",
   "kOmegaBadDeclaration"}
C16_StatusFollowsReason ==
  call.op = "validate" =>
    /\ call.result.status = kOk <=> call.result.reason = "kOk"
    /\ call.result.status = "kTimeMissing" <=> call.result.reason = "kTimeMismatch"
    /\ call.result.reason \notin {"kOk", "kTimeMismatch"} => call.result.status = "kInvalidInput"
    /\ call.result.reason = "kTimeMismatch" => input.frame.time_tag # input.t0
    /\ call.result.reason \in AfterTimeCheck => input.frame.time_tag = input.t0
\* A tag one unit off the tick time, everything else in order.
C16_Witness ==
  /\ call.op = "validate"
  /\ input.t0 = 10 /\ input.frame.time_tag = 11
  /\ ~BadDeclaration(input) /\ ~OffCentre(input) /\ ~NotOrthonormal(input)
  /\ call.result = [status |-> "kTimeMissing", reason |-> "kTimeMismatch"]

\* C17: update(t0) in adopted-preferred mode with a valid candidate returns
\* status ok, used_adopted true, degraded kNone, time_tag t0 and the
\* candidate's origin, DCM, omega and source id with the chief's frame id;
\* no frame is constructed.
ChiefUsable(in) == in.chief.status = kOk /\ in.chief.frame_id # nullptr
AdoptedConsulted(in) == in.mode = "kAdoptedPrefer" /\ in.adopted # nullptr
CandidateValid(in) == FirstFailing(in) = "kOk"
C17_ValidAdoptedIsUsed ==
  (call.op = "update" /\ ChiefUsable(input) /\ AdoptedConsulted(input)
     /\ CandidateValid(input)) =>
    /\ call.out.status = kOk
    /\ call.out.used_adopted
    /\ call.out.degraded = kNone
    /\ call.out.time_tag = input.t0
    /\ call.out.origin_i = input.frame.origin_i
    /\ call.out.C_from_ric_to_inertial = input.frame.C_from_ric_to_inertial
    /\ call.out.has_omega = input.frame.has_omega
    /\ call.out.omega_ric = input.frame.omega_ric
    /\ call.out.omega_coords = input.frame.omega_coords
    /\ call.out.adopted_frame_source_id = input.frame.frame_source_id
    /\ call.out.inertial_frame_id = input.chief.frame_id
    /\ \A k \in 1..Len(call.calls) : call.calls[k] # "construct_ric_from_chief"
\* A valid candidate that is neither the frame construction would give nor
\* centred exactly on the chief.
C17_Witness ==
  /\ call.op = "update" /\ ChiefUsable(input) /\ AdoptedConsulted(input)
  /\ CandidateValid(input)
  /\ input.frame.C_from_ric_to_inertial = QuarterTurn
  /\ input.frame.origin_i # input.chief.r_i
  /\ input.frame.has_omega
  /\ call.out.used_adopted

\* C18: in adopted-preferred mode with a valid chief state and a candidate
\* that fails validation for any reason, update returns the frame
\* constructed from the chief with used_adopted false and degraded
\* containing kAdoptedInvalid.
HasFlag(d, flag) == (d \div flag) % 2 = 1
C18_InvalidAdoptedFallsBack ==
  (call.op = "update" /\ ChiefUsable(input) /\ AdoptedConsulted(input)
     /\ ~CandidateValid(input)) =>
    /\ ~call.out.used_adopted
    /\ HasFlag(call.out.degraded, kAdoptedInvalid)
    /\ call.calls[Len(call.calls)] = "construct_ric_from_chief"
    /\ call.out.origin_i = input.chief.r_i
    /\ call.out.time_tag = input.chief.time_tag
    /\ call.out.inertial_frame_id = input.chief.frame_id
    /\ call.out.adopted_frame_source_id = nullptr
    /\ call.out.status = kOk =>
         /\ call.out.has_omega /\ call.out.omega_coords = "kOmegaRIC"
         /\ \E s \in 1..3 :
              mul(call.out.C_from_ric_to_inertial, <<s, 0, 0>>) = input.chief.r_i
\* A candidate rejected by its provider's status, with a chief the frame
\* can be constructed from.
C18_Witness ==
  /\ call.op = "update" /\ ChiefUsable(input) /\ AdoptedConsulted(input)
  /\ FirstFailing(input) = "kFrameNotOk"
  /\ call.out.status = kOk
  /\ call.out.degraded = kAdoptedInvalid
  /\ call.out.C_from_ric_to_inertial # Mat3Identity

\* C19: degrade flags accumulate.  An invalid adopted frame with a fallback
\* that cannot be constructed gives kAdoptedInvalid | kDegenerateChief and a
\* non-ok status; a failed construction with no adopted frame consulted
\* gives kDegenerateChief only; a frame that was constructed never carries
\* kDegenerateChief.
DegenerateChief(in) ==
  \/ \E k \in 1..3 : NaN \in {in.chief.r_i[k], in.chief.v_i[k]}
  \/ dot(in.chief.r_i, in.chief.r_i) < 1
  \/ dot(in.chief.v_i, in.chief.v_i) = 0
  \/ cross(in.chief.r_i, in.chief.v_i) = <<0, 0, 0>>
C19_DegradeFlagsAccumulate ==
  (call.op = "update" /\ ChiefUsable(input)) =>
    /\ (AdoptedConsulted(input) /\ ~CandidateValid(input) /\ DegenerateChief(input)) =>
         call.out.status # kOk /\ call.out.degraded = kAdoptedInvalid + kDegenerateChief
    /\ (~AdoptedConsulted(input) /\ DegenerateChief(input)) =>
         call.out.status # kOk /\ call.out.degraded = kDegenerateChief
    /\ (~call.out.used_adopted /\ ~DegenerateChief(input)) =>
         call.out.status = kOk /\ ~HasFlag(call.out.degraded, kDegenerateChief)
\* An invalid candidate and a chief that moves along its position vector.
C19_Witness ==
  /\ call.op = "update" /\ ChiefUsable(input) /\ AdoptedConsulted(input)
  /\ ~CandidateValid(input)
  /\ input.chief.v_i = <<2, 0, 0>>
  /\ call.out.degraded = kAdoptedInvalid + kDegenerateChief

\* C20: with a chief state that is not ok or has a null frame id, update
\* returns a snapshot with every field at its default except the status,
\* which is the chief's code (kInvalidInput when only the frame id is
\* missing), and neither asks the adopted provider nor constructs a frame.
C20_ChiefFailureAbortsUpdate ==
  (call.op = "update" /\ ~ChiefUsable(input)) =>
    /\ call.out.status # kOk
    /\ call.out.status = IF input.chief.status = kOk THEN "kInvalidInput"
                         ELSE input.chief.status
    /\ [call.out EXCEPT !.status = kOk] =
         [time_tag |-> 0, origin_i |-> <<0, 0, 0>>,
          C_from_ric_to_inertial |-> <<<<1, 0, 0>>, <<0, 1, 0>>, <<0, 0, 1>>>>,
          has_omega |-> FALSE, omega_ric |-> <<0, 0, 0>>, omega_coords |-> "kUnspecified",
          frame_kind |-> "kBullseyeRIC", axis_order |-> "kRIC",
          inertial_frame_id |-> nullptr, adopted_frame_source_id |-> nullptr,
          used_adopted |-> FALSE, degraded |-> kNone, status |-> kOk]
    /\ call.calls = <<"chief_.get">>
\* An ok chief state without a frame id, an adopted provider at hand.
C20_Witness ==
  /\ call.op = "update"
  /\ input.chief.status = kOk /\ input.chief.frame_id = nullptr
  /\ AdoptedConsulted(input) /\ input.frame = AdoptedGood
  /\ call.out.status = "kInvalidInput"

\* C21: BullseyeFrame keeps no state across ticks: the snapshot of a tick is
\* what a frame object built the same way and never used returns for the
\* answers the providers gave during that tick, and after a tick that used
\* an adopted frame a tick whose candidate is invalid or missing returns
\* neither used_adopted nor the source or an earlier adopted snapshot.
ThisTick == [t0 |-> call.t0, chief |-> call.chief, frame |-> call.frame, tol |-> input.tol,
             mode |-> input.mode, adopted |-> input.adopted]
C21_NoStateAcrossTicks ==
  call.op = "tick" =>
    /\ call.out = update(input.mode, input.adopted, input.tol, call.t0, call.chief,
                         call.frame).out
    /\ ((\E e \in call.earlier : e.used_adopted) /\ ~CandidateValid(ThisTick)) =>
         /\ ~call.out.used_adopted
         /\ call.out.adopted_frame_source_id = nullptr
         /\ \A e \in call.earlier : e.used_adopted => call.out # e
\* The first tick used the adopted frame, at the second the provider still
\* answers with the sample of the first.
C21_Witness ==
  /\ call.op = "tick" /\ call.n = 2
  /\ \E e \in call.earlier : e.used_adopted
  /\ call.frame = AdoptedGood /\ call.chief.status = kOk
  /\ ~call.out.used_adopted
  /\ call.out.degraded = kAdoptedInvalid

\* C22: construct_ric_from_chief returns the code of the first gate that
\* fails in the order chief status ok (kNotAvailable), r and v finite
\* (kInvalidInput), |r| >= Rmin, |v| >= Vmin, h_hat >= Hhatmin
\* (kNotAvailable); kInternalError only when every gate passed; kOk
\* otherwise.
FirstFailingGate(chief) ==
  IF chief.status # kOk THEN "kNotAvailable"
  ELSE IF \E k \in 1..3 : NaN \in {chief.r_i[k], chief.v_i[k]} THEN "kInvalidInput"
  ELSE IF dot(chief.r_i, chief.r_i) < kRmin_m * kRmin_m THEN "kNotAvailable"
  ELSE IF dot(chief.v_i, chief.v_i) = 0 THEN "kNotAvailable"
  ELSE IF cross(chief.r_i, chief.v_i) = <<0, 0, 0>> THEN "kNotAvailable"
  ELSE "all passed"
C22_FirstFailingGateDecides ==
  call.op = "construct" =>
    IF FirstFailingGate(input.chief) = "all passed"
    THEN call.out.status \in {kOk, "kInternalError"}
         /\ (call.out.status = kOk =>
               /\ finite_vec(call.out.omega_ric)
               /\ finite_mat(call.out.C_from_ric_to_inertial)
               /\ det(call.out.C_from_ric_to_inertial) = 1)
    ELSE call.out.status = FirstFailingGate(input.chief)
\* A failed chief query with a non-finite position is reported as not
\* available, not as invalid input.
C22_Witness ==
  /\ call.op = "construct"
  /\ input.chief.status = "kTimeMissing"
  /\ input.chief.r_i = <<NaN, 0, 0>>
  /\ call.out.status = "kNotAvailable"

\* C23: a Cartesian provider with a non-null id, queried at a finite t0 for
\* which a sample with exactly that time tag is stored (the current sample in
\* Current mode, a sample added since the last clear_samples in TimeSeries
\* mode, whatever the insertion order), returns ok with time_tag == t0 and the
\* payload of a sample stored with that tag.
StoredSamples == IF prov.mode_ = "kCurrent" THEN prov.was_set ELSE prov.added
ExactSamples == {s \in StoredSamples : FEq(s.t, call.t0)}
C23_StoredSampleIsFound ==
  (call.op = "get" /\ prov.id_ # nullptr /\ isfinite(call.t0) /\ ExactSamples # {}) =>
    /\ call.out.status = kOk
    /\ call.out.time_tag = call.t0
    /\ \E s \in ExactSamples : call.out.data = s.data

\* C24: TwoBodyChiefProvider::get(t0) never returns kTimeMissing: its status
\* is kOk, kInvalidInput or kInternalError; a null frame id, a mu that is not
\* finite and > 0, a non-finite t0, epoch, r0 or v0, and |r0| = 0 each give
\* kInvalidInput; an ok result has time_tag == t0 and the configured frame id.
TwoBodyInvalidCause ==
  \/ input.self.inertial_frame_id_ = nullptr
  \/ ~isfinite(input.self.mu_) \/ input.self.mu_ <= 0
  \/ ~isfinite(input.t0) \/ ~isfinite(input.self.t_epoch_)
  \/ \E c \in 1..3 : ~isfinite(input.self.r0_[c]) \/ ~isfinite(input.self.v0_[c])
  \/ input.self.r0_ = Vec3Zero
C24_NeverTimeMissing ==
  call.op \in {"get", "propagate"} =>
    /\ call.out.status \in {kOk, "kInvalidInput", "kInternalError"}
    /\ TwoBodyInvalidCause => call.out.status = "kInvalidInput"
    /\ call.out.status = kOk =>
         /\ call.out.time_tag = input.t0
         /\ call.out.frame_id = input.self.inertial_frame_id_
C24_Witness ==
  /\ call.op = "get" /\ call.out.status = kOk
  /\ input.t0 # input.self.t_epoch_ /\ call.out.r_i # input.self.r0_

\* C25: for every input that passes validation, the Kepler solve of
\* TwoBodyChiefProvider::get runs exactly kKeplerIters loop bodies, converged
\* or not, and a body in which dF is zero or F or dF is not finite leaves x
\* as it was.
XBefore(i) ==
  IF i = 1
  THEN KeplerSetup(input.self.mu_, input.self.r0_, input.self.v0_,
                   FSub(input.t0, input.self.t_epoch_)).x0
  ELSE call.xs[i - 1]
DerivativeUnusable(x) ==
  LET k == KeplerSetup(input.self.mu_, input.self.r0_, input.self.v0_,
                       FSub(input.t0, input.self.t_epoch_))
  IN KeplerDF(k, x, "provider") = 0
C25_ExactlyKeplerItersIterations ==
  (call.op \in {"get", "propagate"} /\ call.out.status # "kInvalidInput") =>
    /\ Len(call.xs) = kKeplerIters
    /\ \A i \in 1..Len(call.xs) : DerivativeUnusable(XBefore(i)) => call.xs[i] = XBefore(i)
\* A solve that ran through a loop body whose derivative was zero.
C25_Witness ==
  /\ call.op = "get" /\ call.out.status = kOk
  /\ \E i \in 1..Len(call.xs) : DerivativeUnusable(XBefore(i))

\* C26: for the same (r0, v0, mu, dt), propagate_two_body_universal of
\* ModelYA_STM returns the (r, v) that TwoBodyChiefProvider::get returns.
C26_SameStateFromBothSolvers ==
  (call.op = "propagate" /\ call.out.status = kOk) =>
    /\ call.ya.ok
    /\ call.ya.r_i = call.out.r_i
    /\ call.ya.v_i = call.out.v_i

\* C27: in a tick that reached the mean motion, n is the snapshot's
\* omega_ric.z when has_omega is set, omega_coords is kOmegaRIC and the value
\* is finite and > 0, and |r x v| / |r|^2 of the chief state otherwise; the
\* tick returns there, publishing nothing, exactly when the first source is
\* not usable and the chief-derived value is not finite and > 0.
OmegaSourceUsable(t) ==
  /\ t.frame.has_omega /\ t.frame.omega_coords = "kOmegaRIC"
  /\ isfinite(t.frame.omega_ric[3]) /\ t.frame.omega_ric[3] > 0
ChiefDerived(t) ==
  FDiv(norm(cross(t.chief.r_i, t.chief.v_i)), FMul(norm(t.chief.r_i), norm(t.chief.r_i)))
ReachedMeanMotion(t) ==
  /\ t.who = "relative" /\ "frame" \in t.queried
  /\ t.chief.status = kOk /\ t.chief.frame_id # nullptr /\ t.frame.status = kOk
C27_MeanMotionResolution ==
  ReachedMeanMotion(tick) =>
    /\ tick.outcome = "mean_motion_unresolved"
         <=> (~OmegaSourceUsable(tick) /\ ~FGt(ChiefDerived(tick), 0))
    /\ tick.outcome = "mean_motion_unresolved" => published_seqno(pub) = tick.pre_seqno
    /\ tick.outcome # "mean_motion_unresolved" =>
         tick.n = IF OmegaSourceUsable(tick) THEN tick.frame.omega_ric[3]
                  ELSE ChiefDerived(tick)
\* A published tick whose snapshot declared its omega in inertial
\* coordinates: n came from the chief state.
C27_Witness ==
  /\ ReachedMeanMotion(tick) /\ tick.outcome = "published"
  /\ tick.frame.has_omega /\ tick.frame.omega_coords = "kOmegaInertial"
  /\ tick.frame.omega_ric[3] = 3 /\ tick.n = 2

\* C28: with valid parameters and initial state, a grid of n >= 1 steps and
\* a position span that is null or smaller than n make both models return
\* kInsufficientOutputCapacity with steps_written = 0 and nothing stored in
\* either span; an empty grid returns kOk with steps_written = 0 whatever
\* the spans.
ValidModelInput ==
  /\ finite3(input.x0.r) /\ finite3(input.x0.v)
  /\ IF input.model = "hcw"
     THEN isfinite(input.params.n_radps) /\ input.params.n_radps > 0
     ELSE /\ isfinite(input.params.mu) /\ input.params.mu > 0
          /\ isfinite(input.params.max_dt_sec) /\ input.params.max_dt_sec > 0
          /\ finite3(input.params.chief_r0_i) /\ finite3(input.params.chief_v0_i)
PositionSpanLacking ==
  input.out_r_ric.data = nullptr \/ input.out_r_ric.size < Len(input.tau)
C28_InsufficientCapacityWritesNothing ==
  (call.op = "predict" /\ ValidModelInput) =>
    /\ (Len(input.tau) >= 1 /\ PositionSpanLacking) =>
         /\ call.res.code = "kInsufficientOutputCapacity"
         /\ call.res.steps_written = 0
         /\ call.res.out_r = <<>> /\ call.res.out_v = <<>>
    /\ Len(input.tau) = 0 => call.res.code = kOk /\ call.res.steps_written = 0
\* A null position span that claims room for the whole grid.
C28_Witness ==
  /\ call.op = "predict" /\ ValidModelInput /\ input.model = "ya_stm"
  /\ Len(input.tau) = 2 /\ input.out_r_ric = OutSpan(nullptr, 2)
  /\ input.out_v_ric = OutSpan("buffer", 2)
  /\ call.res.code = "kInsufficientOutputCapacity"

\* C29 as stated: both models return kInvalidInput when any grid offset is
\* negative or non-finite, ModelYA_STM also when the grid decreases
\* anywhere; a successful call implies finite offsets >= 0 and, for
\* ModelYA_STM, a non-decreasing grid.
SomeOffsetInvalid == \E k \in 1..Len(input.tau) : ~isfinite(input.tau[k]) \/ input.tau[k] < 0
GridDecreases ==
  \E k \in 2..Len(input.tau) :
    isfinite(input.tau[k]) /\ isfinite(input.tau[k - 1]) /\ input.tau[k] < input.tau[k - 1]
GridRejected ==
  SomeOffsetInvalid \/ (input.model = "ya_stm" /\ GridDecreases)
C29_InvalidGridIsInvalidInput ==
  call.op = "predict" =>
    /\ GridRejected => call.res.code = "kInvalidInput"
    /\ call.res.code = kOk => ~GridRejected
\* C29, amended: the same, for calls whose position span is non-null and
\* holds the grid; with a null or too small position span the capacity
\* check comes first and the call returns kInsufficientOutputCapacity
\* whatever the offsets (unless parameters or state are invalid).
C29_InvalidGridIsInvalidInputGivenCapacity ==
  call.op = "predict" =>
    /\ (GridRejected /\ ~PositionSpanLacking) => call.res.code = "kInvalidInput"
    /\ (GridRejected /\ PositionSpanLacking /\ ValidModelInput)
         => call.res.code = "kInsufficientOutputCapacity"
    /\ call.res.code = kOk => ~GridRejected
\* Both models turned down a grid after storing its first step: HCW for a
\* non-finite offset, YA for a step back in time.
C29_Witness ==
  /\ call.op = "predict" /\ ValidModelInput /\ ~PositionSpanLacking
  /\ call.res.code = "kInvalidInput" /\ Len(call.res.out_r) = 1
  /\ \/ input.model = "hcw" /\ input.tau = <<0, NaN>>
     \/ input.model = "ya_stm" /\ input.tau = <<2, 0>>

\* C30: steps_written of every call of predict_hcw and predict_ya_stm is the
\* number of steps whose position the call stored in out_r_ric.
C30_StepsWrittenCountsStores ==
  call.op = "predict" => call.res.steps_written = Len(call.res.out_r)

\* C6: a fresh Publisher has published_seqno() == 0; after N publish calls
\* by the single producer published_seqno() == N, and the k-th publish call
\* returned k.
C6_SeqnoCountsPublishes ==
  /\ published_seqno(pub) = npub
  /\ (npub > 0 => last_ret = npub)

C6_Witness == npub = MaxPublish /\ published_seqno(pub) = MaxPublish /\ last_ret = MaxPublish

\* ---------------------------------------------------------------- C7
\* C7: a publish call leaves the buffer that was front when it was called
\* (seqno, t0 and every position) as it was, and changes nothing of the back
\* buffer but its seqno and t0.
C7_PublishTouchesOnlyBack ==
  [][npub' # npub =>
       LET f == pub.front_index
           b == 1 - pub.front_index
       IN /\ pub'.buffers[f] = pub.buffers[f]
          /\ pub'.buffers[b].positions = pub.buffers[b].positions
          /\ pub'.front_index = b]_vars

\* A reference taken by read() before a publish now denotes the old front,
\* which holds a published snapshot with stored cells.
C7_Witness ==
  /\ npub >= 2
  /\ rref # NoRef
  /\ rref # pub.front_index
  /\ pub.buffers[rref].seqno = npub - 1
  /\ \E c \in WriteCells : pub.buffers[rref].positions[c] # Vec3Zero

\* ---------------------------------------------------------------- C8
\* C8: between two consecutive publish calls no step changes what read()
\* returns (same buffer, same seqno, t0 and positions), whatever is stored
\* through the reference of begin_write(); the stored cells show through
\* read() right after the next publish.
C8_FrontStableUntilPublish ==
  [][/\ npub' = npub =>
          /\ read(pub') = read(pub)
          /\ pub'.buffers[read(pub')] = pub.buffers[read(pub)]
     /\ npub' # npub =>
          \A c \in DOMAIN pending : pub'.buffers[read(pub')].positions[c] = pending[c]]_vars

\* Something was stored into the back buffer after a publish, and the front
\* differs from the back in a stored cell.
C8_Witness ==
  /\ npub >= 1
  /\ nwrites = 1
  /\ wref = 1 - pub.front_index
  /\ \E c \in DOMAIN pending :
       pub.buffers[wref].positions[c] # pub.buffers[pub.front_index].positions[c]

\* ---------------------------------------------------------------- C9
\* C9: the front index is always 0 or 1, begin_write() returns the other
\* buffer, never the one read() returns, and each publish swaps the roles.
C9_FrontBackRoles ==
  /\ [](/\ pub.front_index \in {0, 1}
        /\ begin_write(pub) \in {0, 1}
        /\ begin_write(pub) # read(pub))
  /\ [][npub' # npub =>
          /\ read(pub') = begin_write(pub)
          /\ begin_write(pub') = read(pub)]_vars

C9_Witness == npub >= 2 /\ pub.front_index = 0 /\ wref = 1

\* ---------------------------------------------------------------- C10
\* C10: after the producer stored values into the buffer of begin_write()
\* and called publish(t0), read() returns a buffer whose positions hold
\* those values, whose t0 is that t0 and whose seqno is what publish
\* returned.
C10_ReadReturnsLastPublished ==
  npub > 0 =>
    LET f == pub.buffers[read(pub)]
    IN /\ f.t0 = last_t0
       /\ f.seqno = last_ret
       /\ \A c \in DOMAIN last_writes : f.positions[c] = last_writes[c]

\* The second publish carried stored cells, and the producer has already
\* stored something else into the new back buffer.
C10_Witness ==
  /\ npub >= 2
  /\ DOMAIN last_writes = WriteCells
  /\ nwrites = 1
  /\ \E c \in DOMAIN pending : pending[c] # last_writes[c]

\* ---------------------------------------------------------------- C31
\* C31: VehicleIndexMap gives a new id the next dense index (the size
\* before the call) and returns it; registering a known id returns the index
\* it has and changes nothing, also in a full map; registering a new id in
\* a full map returns nullopt and changes nothing; no registration moves an
\* id that was registered; and at all times the ids below size() are
\* pairwise distinct with index_of(id_at(i)) = i.
Registered(m, id) == index_of(m, id) # nullopt
C31_DenseStableIndices ==
  /\ \A i \in Indices : id_at_has_value(map, i) => index_of(map, id_at(map, i)) = i
  /\ \A i, j \in Indices :
       (id_at_has_value(map, i) /\ id_at_has_value(map, j) /\ i # j)
         => id_at(map, i) # id_at(map, j)
  /\ call.op = "register" =>
       /\ Registered(call.before, call.id)
            => call.ret = index_of(call.before, call.id) /\ map = call.before
       /\ (~Registered(call.before, call.id) /\ call.before.size_ = MAX_VEHICLES)
            => call.ret = nullopt /\ map = call.before
       /\ (~Registered(call.before, call.id) /\ call.before.size_ < MAX_VEHICLES)
            => /\ call.ret = call.before.size_
               /\ map.size_ = call.before.size_ + 1
               /\ index_of(map, call.id) = call.ret
       /\ \A id \in MapIds :
            Registered(call.before, id) => index_of(map, id) = index_of(call.before, id)

\* The id 0, the value an unused slot holds, was registered again in a full
\* map and got back its index 1.
C31_Witness ==
  /\ call.op = "register" /\ call.id = 0
  /\ call.before.size_ = MAX_VEHICLES
  /\ call.ret = 1
  /\ map.ids_ = [i \in Indices |-> IF i = 0 THEN 300 ELSE 0]

\* ---------------------------------------------------------------- C32
\* C32: make_time_grid(horizon, cadence) with horizon >= 0 and cadence > 0
\* returns floor(horizon / cadence) + 1 offsets, the first 0, strictly
\* increasing, the last <= horizon and equal to it when cadence divides
\* horizon; with horizon < 0 or cadence <= 0 it returns the empty grid.
ExactFloor(x, y) == (x[1] * y[2]) \div (x[2] * y[1])
Divides(y, x) == (x[1] * y[2]) % (x[2] * y[1]) = 0
C32_GridWithinHorizon ==
  call.op = "grid" =>
    IF input.horizon_sec[1] < 0 \/ input.cadence_sec[1] <= 0
    THEN call.tau = <<>>
    ELSE /\ Len(call.tau) = ExactFloor(input.horizon_sec, input.cadence_sec) + 1
         /\ QEq(call.tau[1], <<0, 1>>)
         /\ \A k \in 1..(Len(call.tau) - 1) : QLt(call.tau[k], call.tau[k + 1])
         /\ QLe(call.tau[Len(call.tau)], input.horizon_sec)
         /\ Divides(input.cadence_sec, input.horizon_sec)
              => QEq(call.tau[Len(call.tau)], input.horizon_sec)

\* ---------------------------------------------------------------- C33
\* C33: whatever add_sample and get calls came before, after
\* set_last_sample_omega_ric(w) the sample changed is one with the tag of
\* the last add_sample call, every other sample is as it was, and a get at
\* that tag right after it reports has_omega with omega w.
C33_OmegaGoesToLastAdded ==
  /\ (call.op = "omega" /\ call.last # NoTag) =>
       \E k \in 1..Len(call.before) :
         /\ call.before[k].t = call.last
         /\ prov.samples_ =
              [call.before EXCEPT ![k].data.has_omega = TRUE, ![k].data.omega_ric = call.w]
  /\ (call.op = "get" /\ call.after.op = "omega" /\ call.last # NoTag /\ call.t0 = call.last) =>
       /\ call.out.status = kOk
       /\ call.out.data.has_omega
       /\ call.out.data.omega_ric = call.after.w

\* ---------------------------------------------------------------- C34
\* C34: for an orthonormal DCM and its transpose, converting a deputy
\* state to RIC with inertial_to_ric_relative and back with
\* ric_to_inertial_relative returns the deputy position and velocity it
\* started from.
QVecEq(a, b) == QEq(a[1], b[1]) /\ QEq(a[2], b[2]) /\ QEq(a[3], b[3])
C34_RoundTripReturnsOriginal ==
  call.op = "trip" =>
    /\ QVecEq(call.back.r, input.veh_r_i)
    /\ QVecEq(call.back.v, input.veh_v_i)

\* C35: a chief state that passes the degeneracy gates and for which
\* construct_ric_from_chief returns kOk gets a DCM whose columns R, I, C are
\* unit length, mutually orthogonal and right-handed (R x I = C, det = +1),
\* with the in-track column along h x r, and omega_ric = (0, 0, |h| / |r|^2).
Column(A, c) == <<A[1][c], A[2][c], A[3][c]>>
RightHandedTriad(A) ==
  /\ \A c \in 1..3 : dot(Column(A, c), Column(A, c)) = 1
  /\ \A c \in 1..3 : \A d \in 1..3 : c # d => dot(Column(A, c), Column(A, d)) = 0
  /\ cross(Column(A, 1), Column(A, 2)) = Column(A, 3)
  /\ det(A) = 1
InTrackAlong(A, chief) ==
  /\ cross(Column(A, 2), cross(cross(chief.r_i, chief.v_i), chief.r_i)) = <<0, 0, 0>>
  /\ dot(Column(A, 2), cross(cross(chief.r_i, chief.v_i), chief.r_i)) > 0
OrbitRate(chief) ==
  <<0, 0, FDiv(norm(cross(chief.r_i, chief.v_i)), dot(chief.r_i, chief.r_i))>>
ConstructedTriad(out, chief) ==
  /\ RightHandedTriad(out.C_from_ric_to_inertial)
  /\ InTrackAlong(out.C_from_ric_to_inertial, chief)
  /\ out.omega_ric = OrbitRate(chief)
C36_SeqnoReadsPublishedAndMonotone ==
  \A r \in Readers : \A i \in 1..Len(rd[r].got) :
    /\ rd[r].got[i].seqno <= rd[r].got[i].published
    /\ i > 1 => rd[r].got[i - 1].seqno <= rd[r].got[i].seqno

\* C37: when a vehicle's row is skipped in a tick that publishes, row i of
\* the newly published snapshot holds what the reused back buffer held
\* before the tick (the row published two publishes earlier, or zeros), and
\* so does every cell at a step index beyond the current grid length.
C37_SkippedRowKeepsBackBuffer ==
  [][(StepCalled /\ tick'.who = "relative" /\ tick'.outcome = "published") =>
       \A i \in DOMAIN tick'.rows : \A k \in 0..(BUF_MAX_STEPS - 1) :
         (tick'.rows[i].code # kOk \/ k >= Len(tick'.grid)) =>
           pub'.buffers[read(pub')].positions[CellOf(i, k)]
             = pub.buffers[begin_write(pub)].positions[CellOf(i, k)]]_vars

\* C38: when the time grid has more offsets than the MAX_STEPS the
\* predictor clamps its span to, RelativePredictor::step hands the model the
\* full grid with a span of MAX_STEPS elements: no vehicle gets kOk, every
\* vehicle whose state reaches the model and passes its input validation
\* gets kInsufficientOutputCapacity, no cell of the back buffer is written,
\* and the tick still publishes a new seqno and t0.  DummyPredictor writes
\* the first steps of the grid, as many as its own clamp allows.
ReachesModel(t, i) ==
  /\ t.vst[i].status = kOk
  /\ t.vst[i].frame_id = t.chief.frame_id
  /\ finite_vec(t.vst[i].r_i)
  /\ finite_vec(t.vst[i].v_i)
C38_LongGridWritesNothingButPublishes ==
  [][/\ (StepCalled /\ tick'.who = "relative" /\ tick'.back # NoRef
           /\ Len(tick'.grid) > MAX_STEPS)
        => /\ \A i \in DOMAIN tick'.rows :
                /\ tick'.rows[i].code # kOk
                /\ ReachesModel(tick', i)
                     => tick'.rows[i].code = "kInsufficientOutputCapacity"
           /\ pub'.buffers[tick'.back].positions = pub.buffers[tick'.back].positions
           /\ ~crashed'
           /\ read(pub') = tick'.back
           /\ published_seqno(pub') = published_seqno(pub) + 1
           /\ pub'.buffers[read(pub')].t0 = tick'.t0
     /\ (StepCalled /\ tick'.who = "dummy" /\ Len(tick'.grid) > MAX_STEPS)
        => \A i \in 0..(tick'.size - 1) : \A k \in 0..(BUF_MAX_STEPS - 1) :
             pub'.buffers[read(pub')].positions[CellOf(i, k)]
               = DummyPosition(i, k, tick'.grid[k + 1])]_vars
\* A second tick over the long grid with both deputies in reach of the
\* model: the snapshot has the new seqno and t0 and the rows of the buffer
\* as the tick found it.
C38_Witness ==
  /\ tick.who = "relative"
  /\ tick.outcome = "published"
  /\ Len(tick.grid) = MAX_STEPS + 1
  /\ tick.size = MAX_VEHICLES
  /\ \A i \in DOMAIN tick.rows : tick.rows[i].code = "kInsufficientOutputCapacity"
  /\ published_seqno(pub) = 2
  /\ pub.buffers[read(pub)].t0 = TickTime(1)
  /\ pub.buffers[read(pub)].positions = PredictionBuffer.positions
  /\ pub.buffers[BackOf(read(pub))].positions # PredictionBuffer.positions

\* C39: in every tick the initial relative state the model gets for a
\* vehicle is C (r_dep - r_chief) and C (v_dep - v_chief) - omega x r_ric
\* with omega the omega_ric field of the frame snapshot, whatever has_omega
\* and omega_coords say; with an adopted frame without omega that field is
\* the zero vector, so the relative velocity is C (v_dep - v_chief) with no
\* rotating-frame term, while the n the model gets is the non-zero
\* |r x v| / |r|^2 of the chief.
InitialState(t, i, omega) ==
  LET C_i2r == transpose(t.frame.C_from_ric_to_inertial)
      r_ric == mul(C_i2r, VSub(t.vst[i].r_i, t.chief.r_i))
      Cdv == mul(C_i2r, VSub(t.vst[i].v_i, t.chief.v_i))
  IN r_ric \o VSub(Cdv, cross(omega, r_ric))
InputOfModel(t, i) == SubSeq(t.rows[i].out[2], 1, 6)
MeanMotionOfModel(t, i) == t.rows[i].out[2][7]
ExactCeil(x, y) == (x[1] * y[2] + x[2] * y[1] - 1) \div (x[2] * y[1])
C40_SubstepCountAndSize ==
  call.op = "interval" =>
    IF QLt(<<0, 1>>, call.dt)
    THEN /\ call.n_steps = ExactCeil(call.dt, input.max_dt_sec)
         /\ QLe(call.h, input.max_dt_sec)
    ELSE call.n_steps = 0 /\ QEq(call.t, input.t_prev)

====
